---- MODULE Spec2Model ----
(***************************************************************************)
(* Thumbnail worker (cmd/worker), status-repair backfill (cmd/backfill)    *)
(* and the earlier gap-filling backfill, over a shared content store.      *)
(*                                                                         *)
(* The content store, the message bus and the renderers are collaborators: *)
(* each call to them is one step whose outcome (success or an error) is    *)
(* chosen nondeterministically.  A job's steps interleave with the steps   *)
(* of a running scan and with the clock.                                   *)
(***************************************************************************)
EXTENDS Integers, Sequences, FiniteSets, TLC

VARIABLES
    store,      \* derived content records, indexed by content id (1..Len)
    parents,    \* parent content id -> status
    jobs,       \* job id -> state of its handleJob invocation
    scan,       \* the backfill scanner run in progress
    gap,        \* the last run of the gap-filling backfill
    published,  \* parents for which the gap-filling backfill published a job
    dryRef,     \* what the last dry-run scan discovered, while the store is unchanged
    gapRef,     \* what the last dry-run gap-filling run discovered, likewise
    calc,       \* the last call of one of the worker's pure functions: arguments and result
    scratch,    \* the worker's local filesystem: the files under os.TempDir and ThumbDir
    runs        \* the execute-mode scan runs followed since something else last wrote the store

vars == <<store, parents, jobs, scan, gap, published, dryRef, gapRef, calc, scratch, runs>>

----------------------------------------------------------------------------
(* Bounds *)

MaxJobs == 1
\* handleJob invocations the worker runs at once in TwoJobSpec
MaxWorkers == 2
MaxHintLen == 2
\* how many of LoadConfig's predefined sizes the worker is configured with
MaxSizes == 2
\* how many derived records the store holds when a backfill run meets it
MaxStored == 2
\* widths and heights up to which deriveSizeVariant is called on its own
MaxDim == 12

----------------------------------------------------------------------------
(* Program constants *)

\* time.Hour, the staleness threshold of fixDerivedContentStatus, in hours
StaleHours == 1

Jobs == 1..MaxJobs
Parents == {"p1", "p2"}

\* the predefined thumbnail sizes of LoadConfig
PredefinedSizes ==
    << [Name |-> "small",  Width |-> 150,  Height |-> 150],
       [Name |-> "medium", Width |-> 512,  Height |-> 512],
       [Name |-> "large",  Width |-> 1024, Height |-> 1024] >>

\* cfg.ThumbnailSizes: the predefined sizes, or the leading ones of them when
\* THUMBNAIL_SIZES configures fewer
ThumbnailSizes ==
    SubSeq(PredefinedSizes, 1,
           IF MaxSizes < Len(PredefinedSizes) THEN MaxSizes ELSE Len(PredefinedSizes))

SizeNames == {ThumbnailSizes[i].Name : i \in DOMAIN ThumbnailSizes}

\* tokens a thumbnail_sizes hint may hold after Split(",") and TrimSpace
HintTokens == {"small", "medium", "bogus"}
Hints == UNION {[1..n -> HintTokens] : n \in 0..MaxHintLen}

\* content_id values a job envelope may carry: none, not a UUID, a UUID of no
\* content, or a parent's id
CidValues == {"", "not-a-uuid", "unknown-uuid"} \cup Parents

\* MIME type the store's metadata reports for each parent
ParentMime == [p \in Parents |-> IF p = "p1" THEN "image/jpeg" ELSE "application/zip"]

\* schema.FailureType
FailureTypeRetryable == "retryable"
FailureTypePermanent == "permanent"
FailureTypeValidation == "validation"

\* schema.ProcessingStage
StageValidation == "validation"
StageProcessing == "processing"
StageUpload == "upload"
StageCompleted == "completed"
StageFailed == "failed"

\* error texts the collaborators return
TransientTexts == {"timeout"}
PermanentTexts == {"no such file"}
ErrTexts == TransientTexts \cup PermanentTexts \cup {"internal error"}

NoErr == [tag |-> "", text |-> ""]
PlainErr(t) == [tag |-> "", text |-> t]

----------------------------------------------------------------------------
(* Pure functions of the worker *)

\* the signatures classifyError looks for in an error text
TransientSignatures ==
    {"connection refused", "timeout", "temporary failure", "context deadline exceeded"}
PermanentSignatures ==
    {"no such file", "permission denied", "invalid image format", "unsupported"}

\* error texts that wrap others, and the signatures found in them; any other
\* text holds itself only
Fragments(text) ==
    CASE text = "stat thumbnail: no such file: context deadline exceeded"
           -> {"no such file", "context deadline exceeded"}
      [] text = "unsupported MIME type: timeout" -> {"unsupported", "timeout"}
      [] text = "upload object for content: permission denied" -> {"permission denied"}
      [] text = "fetch content: connection refused" -> {"connection refused"}
      [] OTHER -> {text}

\* strings.Contains(errStr, signature)
Contains(errStr, signature) == signature \in Fragments(errStr)

\* variant: an unrecognised error is permanent
classifyErrorStrict(err) ==
    IF err = NoErr THEN ""
    ELSE IF err.tag # "" THEN err.tag
    ELSE IF \E sig \in TransientSignatures : Contains(err.text, sig) THEN FailureTypeRetryable
    ELSE FailureTypePermanent

classifyError(err) ==
    IF err = NoErr THEN ""
    ELSE IF err.tag # "" THEN err.tag
    ELSE IF \E sig \in TransientSignatures : Contains(err.text, sig) THEN FailureTypeRetryable
    ELSE IF \E sig \in PermanentSignatures : Contains(err.text, sig) THEN FailureTypePermanent
    ELSE FailureTypeRetryable

\* the errors classifyError is called with on its own: a ValidationError with
\* its type, or any other error, with each text
AllErrTexts ==
    TransientSignatures \cup PermanentSignatures
    \cup {"internal error", "parent content status",
          "stat thumbnail: no such file: context deadline exceeded",
          "unsupported MIME type: timeout",
          "upload object for content: permission denied",
          "fetch content: connection refused"}

AllErrs ==
    {[tag |-> t, text |-> x] :
        t \in {"", FailureTypeRetryable, FailureTypePermanent, FailureTypeValidation},
        x \in AllErrTexts}

\* the characters of %d
DigitChars == <<"0", "1", "2", "3", "4", "5", "6", "7", "8", "9">>

RECURSIVE Digits(_)
Digits(n) ==
    IF n < 10 THEN <<DigitChars[n + 1]>>
    ELSE Digits(n \div 10) \o <<DigitChars[(n % 10) + 1]>>

\* variant: the height is left out of the name
deriveSizeVariantWidth(width, height) == <<"thumbnail_">> \o Digits(width)

deriveSizeVariant(width, height) ==
    IF width = height
    THEN <<"thumbnail_">> \o Digits(width)
    ELSE <<"thumbnail_">> \o Digits(width) \o <<"x">> \o Digits(height)

\* the first available size named `requested`, as a sequence of 0 or 1 sizes
FirstNamed(requested, availableSizes) ==
    LET hits == {i \in DOMAIN availableSizes : availableSizes[i].Name = requested}
    IN  IF hits = {} THEN <<>>
        ELSE <<availableSizes[CHOOSE i \in hits : \A k \in hits : i <= k]>>

RECURSIVE SelectSizes(_, _)
SelectSizes(requestedSizes, availableSizes) ==
    IF requestedSizes = <<>> THEN <<>>
    ELSE FirstNamed(Head(requestedSizes), availableSizes)
         \o SelectSizes(Tail(requestedSizes), availableSizes)

\* variant: no fallback to the configured set
parseThumbnailSizesHintStrict(hint, availableSizes) == SelectSizes(hint, availableSizes)

\* hints: the tokens of hints["thumbnail_sizes"]; <<>> when absent or empty
parseThumbnailSizesHint(hint, availableSizes) ==
    IF hint = <<>> THEN availableSizes
    ELSE LET selectedSizes == SelectSizes(hint, availableSizes)
         IN  IF Len(selectedSizes) = 0 THEN availableSizes ELSE selectedSizes

\* variant: every parent status passes
validateParentContentStepLax(parentStatus) == NoErr

\* nil, or the ValidationError validateParentContentStep returns
validateParentContentStep(parentStatus) ==
    IF parentStatus # "uploaded"
    THEN [tag |-> FailureTypeValidation, text |-> "parent content status"]
    ELSE NoErr

NoCalc == [fn |-> "none"]

\* the size sets THUMBNAIL_SIZES can configure from the predefined sizes
ConfiguredSets ==
    { SelectSizes(names, PredefinedSizes) :
        names \in { <<"small">>, <<"medium">>, <<"large">>, <<"small", "medium">>,
                    <<"small", "large">>, <<"medium", "large">>,
                    <<"small", "medium", "large">> } }

\* tokens of the hints given to parseThumbnailSizesHint when called on its own
AllHintTokens == HintTokens \cup {"large"}
AllHints == UNION {[1..n -> AllHintTokens] : n \in 0..MaxHintLen}

\* parseThumbnailSizesHint called with a hint and a configured size set
CallParseThumbnailSizesHint ==
    /\ calc = NoCalc
    /\ \E hint \in AllHints, availableSizes \in ConfiguredSets :
          calc' = [fn |-> "parseThumbnailSizesHint",
                   hint |-> hint,
                   availableSizes |-> availableSizes,
                   out |-> parseThumbnailSizesHint(hint, availableSizes)]
    /\ UNCHANGED <<store, parents, jobs, scan, gap, published, dryRef, gapRef, scratch, runs>>

\* classifyError called with an error
CallClassifyError ==
    /\ calc = NoCalc
    /\ \E err \in AllErrs :
          calc' = [fn |-> "classifyError", err |-> err, out |-> classifyError(err)]
    /\ UNCHANGED <<store, parents, jobs, scan, gap, published, dryRef, gapRef, scratch, runs>>

\* the variant name as upload.deriveSizeVariant computes it
uploadDeriveSizeVariant(width, height) ==
    IF width = height
    THEN <<"thumbnail_">> \o Digits(width)
    ELSE <<"thumbnail_">> \o Digits(width) \o <<"x">> \o Digits(height)

\* widths and heights: the small ones and those of the configured sizes
Dims == 1..MaxDim \cup {150, 384, 512, 1024}

\* deriveSizeVariant called on two (width, height) pairs
CallDeriveSizeVariant ==
    /\ calc = NoCalc
    /\ \E w1 \in Dims, h1 \in Dims, w2 \in Dims, h2 \in Dims :
          calc' = [fn |-> "deriveSizeVariant",
                   a |-> <<w1, h1>>, b |-> <<w2, h2>>,
                   outA |-> deriveSizeVariant(w1, h1),
                   outB |-> deriveSizeVariant(w2, h2),
                   again |-> deriveSizeVariant(w1, h1),
                   upload |-> uploadDeriveSizeVariant(w1, h1)]
    /\ UNCHANGED <<store, parents, jobs, scan, gap, published, dryRef, gapRef, scratch, runs>>

----------------------------------------------------------------------------
(* ProcessingState and the events of one handleJob invocation *)

IdleJob ==
    [ pc |-> "idle",            \* position in handleJob
      parent |-> "",            \* contentID
      parentStatus |-> "",      \* state.ParentStatus
      sizes |-> <<>>,           \* thumbnailSizes
      ids |-> [n \in SizeNames |-> 0],  \* state.DerivedContentIDs (0: no entry)
      pending |-> {},           \* map entries updateDerivedContentStatusAfterDownload has not visited
      mime |-> "",              \* source.MimeType
      fallback |-> FALSE,       \* GetGenerator failed, ImageGenerator used instead
      generator |-> "",         \* generator.Name() of the generator handleJob uses
      warnings |-> <<>>,        \* records the job logged at level Warn
      thumbs |-> <<>>,          \* thumbnails returned by Generate
      results |-> <<>>,         \* results built by uploadResultsStep
      lifecycle |-> <<>>,       \* state.Lifecycle
      done |-> <<>>,            \* ThumbnailDone messages published on ResultSubject
      lifeMsgs |-> <<>>,        \* messages published on ResultSubject.lifecycle
      uploadErrs |-> 0,         \* errors UploadThumbnailObject has returned
      ret |-> "none",           \* handleJob's return: none (running), nil, error
      source |-> <<>>,          \* source.Path (<<>>: no source fetched)
      filename |-> "",          \* source.Filename
      paths |-> <<>>,           \* thumb.Path of each thumbnail Generate returned
      expired |-> FALSE,        \* ctx.Err() # nil: the job's deadline has passed
      trace |-> <<>> ]          \* external calls made so far, in order

\* ProcessingState.AddLifecycleEvent
AddLifecycleEvent(lifecycle, stage, err, failureType) ==
    Append(lifecycle,
           [Stage |-> stage,
            Error |-> err.text,
            FailureType |-> IF err # NoErr THEN failureType ELSE ""])

CountFailed(results) ==
    Cardinality({i \in DOMAIN results : results[i].Status # "processed"})

\* variant: the message never carries a failure type
publishEventsStepUntyped(lifecycle, results, cause, failureType) ==
    [ TotalProcessed |-> Len(results),
      TotalFailed |-> CountFailed(results),
      Results |-> results,
      Lifecycle |-> lifecycle,
      Error |-> cause.text,
      FailureType |-> "" ]

\* the ThumbnailDone message publishEventsStep builds and publishes
publishEventsStep(lifecycle, results, cause, failureType) ==
    [ TotalProcessed |-> Len(results),
      TotalFailed |-> CountFailed(results),
      Results |-> results,
      Lifecycle |-> lifecycle,
      Error |-> cause.text,
      FailureType |-> IF cause # NoErr THEN failureType ELSE "" ]

\* handleJob's early exits for a missing or unparseable content id: a fresh
\* ProcessingState, no lifecycle event, classification validation
RejectJob(jr, err) ==
    [jr EXCEPT !.done = Append(@, publishEventsStep(<<>>, <<>>, err, FailureTypeValidation)),
               !.ret = "error",
               !.pc = "done"]

\* variant: a failure exit that publishes no ThumbnailDone
AbortJobSilent(jr, err) ==
    [jr EXCEPT !.lifecycle = AddLifecycleEvent(@, StageFailed, err, classifyError(err)),
               !.ret = "error",
               !.pc = "done"]

\* handleJob's failure exits after the ProcessingState exists
AbortJob(jr, err) ==
    LET failureType == classifyError(err)
        lc == AddLifecycleEvent(jr.lifecycle, StageFailed, err, failureType)
    IN  [jr EXCEPT !.lifecycle = lc,
                   !.done = Append(@, publishEventsStep(lc, <<>>, err, failureType)),
                   !.ret = "error",
                   !.pc = "done"]

\* variant: a job none of whose uploads succeeded ends as a failure
CompleteJobStrict(jr, results) ==
    IF CountFailed(results) = Len(results)
    THEN AbortJob([jr EXCEPT !.results = results], PlainErr("internal error"))
    ELSE LET lc == AddLifecycleEvent(jr.lifecycle, StageCompleted, NoErr, "")
         IN  [jr EXCEPT !.results = results,
                        !.lifecycle = lc,
                        !.done = Append(@, publishEventsStep(lc, results, NoErr, "")),
                        !.ret = "nil",
                        !.pc = "done"]

\* handleJob step 9
CompleteJob(jr, results) ==
    LET lc == AddLifecycleEvent(jr.lifecycle, StageCompleted, NoErr, "")
    IN  [jr EXCEPT !.results = results,
                   !.lifecycle = lc,
                   !.done = Append(@, publishEventsStep(lc, results, NoErr, "")),
                   !.ret = "nil",
                   !.pc = "done"]

\* variant: the file block's id is preferred to attributes.content_id
ContentIDValueFileFirst(attr, fileID) == IF fileID # "" THEN fileID ELSE attr

\* the content id handleJob reads from the envelope
ContentIDValue(attr, fileID) == IF attr # "" THEN attr ELSE fileID

----------------------------------------------------------------------------
(* Content store calls *)

\* UpdateContentStatus: sets the status and the record's updated_at (age: the
\* hours since updated_at)
UpdateContentStatus(st, id, status) ==
    [st EXCEPT ![id].status = status, ![id].age = 0]

\* variant: the placeholder is created in processing
NewDerivedProcessing(j, p, size) ==
    [ job |-> j, parent |-> p, size |-> size.Name,
      variant |-> deriveSizeVariant(size.Width, size.Height),
      status |-> "processing", age |-> 0, objs |-> <<>> ]

\* CreateDerivedContent with InitialStatus created
NewDerived(j, p, size) ==
    [ job |-> j, parent |-> p, size |-> size.Name,
      variant |-> deriveSizeVariant(size.Width, size.Height),
      status |-> "created", age |-> 0, objs |-> <<>> ]

\* an object added to a content record
AddObject(st, id, objStatus) == [st EXCEPT ![id].objs = Append(@, objStatus)]

----------------------------------------------------------------------------
(* handleJob, one action per call to a collaborator *)

\* file name the store's metadata reports for each parent
ParentFileName == [p \in Parents |-> IF p = "p1" THEN "photo.jpg" ELSE "bundle.zip"]

\* a file of the local filesystem: its path and the job that wrote it last
File(path, j) == [path |-> path, by |-> j]

Exists(fs, path) == \E f \in fs : f.path = path

\* os.Remove
RemoveFile(fs, path) == {f \in fs : f.path # path}

\* creating or overwriting the file at path
WriteFile(fs, path, j) == RemoveFile(fs, path) \cup {File(path, j)}

\* os.CreateTemp("", "thumbnail-src-*"): a name under os.TempDir no existing
\* file has
CreateTemp(fs) ==
    LET free == {n \in 1..(Cardinality(fs) + 1) :
                    ~Exists(fs, <<"tmp", "thumbnail-src", "", "", n>>)}
    IN  <<"tmp", "thumbnail-src", "", "",
          CHOOSE n \in free : \A m \in free : n <= m>>

\* filepath.Base on the blob locations a job envelope carries
Base(path) ==
    CASE path = "inbox/scan.png" -> "scan.png"
      [] path = "scan.png" -> "scan.png"
      [] path = "inbox/" -> "inbox"
      [] OTHER -> path

\* job.File.Attributes["filename"].(string): the attribute when it is a
\* string, "" when it is absent or of another type
AttrFilename(attribute) == IF attribute.kind = "string" THEN attribute.text ELSE ""

\* FetchSource: Source.Filename is the metadata's file name, or "downloaded"
\* when GetContentMetadata fails or reports none
FetchSourceFilename(metaOK, metaFileName) ==
    IF metaOK /\ metaFileName # "" THEN metaFileName ELSE "downloaded"

\* variant: the fetched source's filename is preferred to the attribute
ResolveNameSourceFirst(fileName, attrFilename, sourceFilename, sourcePath) ==
    IF fileName # "" THEN fileName
    ELSE IF sourceFilename # "" THEN sourceFilename
    ELSE IF attrFilename # "" THEN attrFilename
    ELSE IF sourcePath # "" THEN Base(sourcePath)
    ELSE "thumbnail.png"

\* handleJob step 6: the name the thumbnails are filed under
ResolveName(fileName, attrFilename, sourceFilename, sourcePath) ==
    IF fileName # "" THEN fileName
    ELSE IF attrFilename # "" THEN attrFilename
    ELSE IF sourceFilename # "" THEN sourceFilename
    ELSE IF sourcePath # "" THEN Base(sourcePath)
    ELSE "thumbnail.png"

\* BuildThumbPath: ThumbDir/<contentID>_thumb_<base name>
BuildThumbPath(contentID, name) == <<"thumbs", contentID, name>>

\* GenerateThumbnails: dstPath, the base path with the spec's name before
\* the extension
DstPath(baseDstPath, specName) == baseDstPath \o <<specName, 0>>

\* the files GenerateThumbnails has saved after the first `written` specs
SaveThumbnails(fs, j, paths, written) ==
    {f \in fs : \A k \in 1..written : f.path # paths[k]}
        \cup {File(paths[k], j) : k \in 1..written}

\* the deferred source.Cleanup, run when handleJob returns
Cleanup(fs, jr) == IF jr.pc = "done" THEN RemoveFile(fs, jr.source) ELSE fs

SetJob(j, jr) == jobs' = [jobs EXCEPT ![j] = jr]

\* variant: Generate runs alongside the source fetch
StepAfterParallel(step) ==
    CASE step = "create" -> "generate"
      [] step = "fetch" -> "mark"
      [] step = "mark" -> "upload"
      [] step = "generate" -> "fetch"

\* the step handleJob takes after a step that returned no error: placeholder
\* creation, source fetch, the status update after download, Generate, upload
StepAfter(step) ==
    CASE step = "create" -> "fetch"
      [] step = "fetch" -> "mark"
      [] step = "mark" -> "generate"
      [] step = "generate" -> "upload"

\* variant: the loop ends after the first record
AllCreatedEarly(made, sizes) == made >= 1

\* createDerivedContentRecords' loop over the sizes ends after `made` records
AllCreated(made, sizes) == made = Len(sizes)

\* handleJob up to step 2: content id, size hint, GetContent, validation.
\* getErr is the error GetContent returns (NoErr: it returns the parent).
HandleJobStart(j, attr, fileID, hint, getErr) ==
    LET jr == jobs[j]
        contentIDValue == ContentIDValue(attr, fileID)
    IN  /\ jr.pc = "idle"
        /\ UNCHANGED <<store, parents, scan, gap, published, calc, scratch>>
        /\ IF contentIDValue = ""
           THEN SetJob(j, RejectJob(jr, PlainErr("missing content_id")))
           ELSE IF contentIDValue = "not-a-uuid"
           THEN SetJob(j, RejectJob(jr, PlainErr("invalid UUID")))
           ELSE LET st0 == [jr EXCEPT !.parent = contentIDValue,
                                      !.sizes = parseThumbnailSizesHint(hint, ThumbnailSizes)]
                IN  IF contentIDValue \notin Parents \/ getErr # NoErr
                    THEN /\ getErr # NoErr
                         /\ SetJob(j, AbortJob(st0, getErr))
                    ELSE LET st1 == [st0 EXCEPT
                                       !.parentStatus = parents[contentIDValue],
                                       !.lifecycle = AddLifecycleEvent(@, StageValidation, NoErr, "")]
                             verr == validateParentContentStep(parents[contentIDValue])
                         IN  IF verr # NoErr
                             THEN SetJob(j, AbortJob(st1, verr))
                             ELSE SetJob(j, [st1 EXCEPT !.pc = "create"])

\* createDerivedContentRecords: the next CreateDerivedContent call; ids is the
\* map being built, which handleJob gets only when every call succeeded
CreateDerivedContentRecords(j, err) ==
    LET jr == jobs[j]
        made == Cardinality({i \in DOMAIN store : store[i].job = j})
        size == jr.sizes[made + 1]
        tr == [jr EXCEPT !.trace = Append(@, "create")]
    IN  /\ jr.pc = "create"
        /\ UNCHANGED <<parents, scan, gap, published, calc, scratch>>
        /\ IF err # NoErr
           THEN /\ SetJob(j, AbortJob([tr EXCEPT !.ids = IdleJob.ids], err))
                /\ UNCHANGED store
           ELSE /\ store' = Append(store, NewDerived(j, jr.parent, size))
                /\ SetJob(j, [tr EXCEPT !.ids[size.Name] = Len(store) + 1,
                                        !.pc = IF AllCreated(made + 1, jr.sizes)
                                               THEN StepAfter("create") ELSE "create"])

\* fetchSourceStep: DownloadContent, then GetContentMetadata (whose failure
\* only leaves the MIME type empty)
FetchSourceStep(j, err, metaOK) ==
    LET jr == jobs[j]
        tr == [jr EXCEPT !.trace = Append(@, "download")]
        temp == CreateTemp(scratch)
    IN  /\ jr.pc = "fetch"
        /\ UNCHANGED <<store, parents, scan, gap, published, calc>>
        /\ scratch' = IF err # NoErr THEN scratch ELSE WriteFile(scratch, temp, j)
        /\ IF err # NoErr
           THEN SetJob(j, AbortJob(tr, err))
           ELSE SetJob(j, [tr EXCEPT
                             !.source = temp,
                             !.filename = IF metaOK THEN ParentFileName[jr.parent]
                                          ELSE "downloaded",
                             !.mime = IF metaOK THEN ParentMime[jr.parent] ELSE "",
                             !.pending = {n \in SizeNames : jr.ids[n] # 0},
                             !.pc = StepAfter("fetch")])

\* updateDerivedContentStatusAfterDownload: the next map entry, in any order
UpdateDerivedContentStatusAfterDownload(j, sizeName, err) ==
    LET jr == jobs[j]
        left == jr.pending \ {sizeName}
    IN  /\ jr.pc = "mark"
        /\ sizeName \in jr.pending
        /\ UNCHANGED <<parents, scan, gap, published, calc>>
        /\ IF err # NoErr
           THEN /\ SetJob(j, AbortJob(jr, err))
                /\ UNCHANGED store
           ELSE /\ store' = UpdateContentStatus(store, jr.ids[sizeName], "processing")
                /\ IF left # {}
                   THEN SetJob(j, [jr EXCEPT !.pending = left])
                   ELSE SetJob(j, [jr EXCEPT
                          !.pending = left,
                          !.lifecycle = AddLifecycleEvent(@, StageProcessing, NoErr, ""),
                          !.lifeMsgs = Append(@, StageProcessing),
                          !.pc = StepAfter("mark")])
        /\ scratch' = Cleanup(scratch, jobs'[j])


\* MIME types a source may declare
MimeTypes ==
    {"", "image/jpeg", "image/png", "IMAGE/PNG", "Image/Gif", "video/mp4", "VIDEO/MP4",
     "video/quicktime", "application/pdf", "APPLICATION/PDF", "Application/Pdf",
     "application/zip", "application/pdfx", "imagex/png", "text/plain"}

\* strings.ToLower on the MIME types above
ToLower(s) ==
    CASE s = "IMAGE/PNG" -> "image/png"
      [] s = "Image/Gif" -> "image/gif"
      [] s = "VIDEO/MP4" -> "video/mp4"
      [] s \in {"APPLICATION/PDF", "Application/Pdf"} -> "application/pdf"
      [] OTHER -> s

\* the characters of a MIME type up to and including its first "/"
TypePrefix(s) ==
    CASE s \in {"image/jpeg", "image/png", "image/gif"} -> "image/"
      [] s = "IMAGE/PNG" -> "IMAGE/"
      [] s = "Image/Gif" -> "Image/"
      [] s \in {"video/mp4", "video/quicktime"} -> "video/"
      [] s = "VIDEO/MP4" -> "VIDEO/"
      [] s \in {"application/pdf", "application/zip", "application/pdfx"} -> "application/"
      [] s = "APPLICATION/PDF" -> "APPLICATION/"
      [] s = "Application/Pdf" -> "Application/"
      [] s = "imagex/png" -> "imagex/"
      [] s = "text/plain" -> "text/"
      [] OTHER -> ""

\* strings.HasPrefix for a prefix that ends with "/"
HasPrefix(s, prefix) == TypePrefix(s) = prefix

\* variant: the MIME type is matched as it is written
GetGeneratorCaseSensitive(mimeType) ==
    IF HasPrefix(mimeType, "image/") THEN "image"
    ELSE IF HasPrefix(mimeType, "video/") THEN "video"
    ELSE IF mimeType = "application/pdf" THEN "pdf"
    ELSE ""

\* Supports of the generator named gen: ImageGenerator, VideoGenerator
\* (FFmpegConverter), PDFGenerator (PopplerConverter)
Supports(gen, mimeType) ==
    CASE gen = "image" -> HasPrefix(ToLower(mimeType), "image/")
      [] gen = "video" -> HasPrefix(ToLower(mimeType), "video/")
      [] gen = "pdf" -> ToLower(mimeType) = "application/pdf"
      [] OTHER -> FALSE

\* img.GetGenerator: the generator for a MIME type, "" when unsupported
GetGenerator(mimeType) ==
    LET lower == ToLower(mimeType)
    IN  IF HasPrefix(lower, "image/") THEN "image"
        ELSE IF HasPrefix(lower, "video/") THEN "video"
        ELSE IF lower = "application/pdf" THEN "pdf"
        ELSE ""

FallbackWarning == "unsupported file type, falling back to image generator"

\* variant: the fallback is taken without a log record
SelectGeneratorQuiet(mimeType) ==
    [name |-> IF GetGenerator(mimeType) = "" THEN "image" ELSE GetGenerator(mimeType),
     warn |-> <<>>]

\* handleJob's generator selection: the generator for the MIME type, or the
\* image generator and a warning when GetGenerator returns an error
SelectGenerator(mimeType) ==
    IF GetGenerator(mimeType) = ""
    THEN [name |-> "image", warn |-> <<FallbackWarning>>]
    ELSE [name |-> GetGenerator(mimeType), warn |-> <<>>]

\* the outputs a successful Generate returns: one per spec, in spec order
GenerateOutputs(specs) == [i \in DOMAIN specs |-> specs[i].Name]

\* handleJob steps 6-8: generator selection (with the image fallback),
\* Generate, the upload lifecycle event
GenerateStep(j, err, written) ==
    LET jr == jobs[j]
        tr == [jr EXCEPT !.trace = Append(@, "generate"),
                         !.fallback = (GetGenerator(jr.mime) = ""),
                         !.generator = SelectGenerator(jr.mime).name,
                         !.warnings = @ \o SelectGenerator(jr.mime).warn]
        thumbnails == GenerateOutputs(jr.sizes)
        basePath == BuildThumbPath(jr.parent, ResolveName("", "", jr.filename, ""))
        paths == [i \in DOMAIN jr.sizes |-> DstPath(basePath, jr.sizes[i].Name)]
    IN  /\ jr.pc = "generate"
        /\ written \in 0..Len(jr.sizes)
        /\ (err = NoErr) = (written = Len(jr.sizes))
        /\ UNCHANGED <<store, parents, scan, gap, published, calc>>
        /\ IF err # NoErr
           THEN SetJob(j, AbortJob(tr, err))
           ELSE LET up == [tr EXCEPT
                             !.thumbs = thumbnails,
                             !.paths = paths,
                             !.lifecycle = AddLifecycleEvent(@, StageUpload, NoErr, ""),
                             !.lifeMsgs = Append(@, StageUpload)]
                IN  IF Len(thumbnails) = 0
                    THEN SetJob(j, CompleteJob(up, <<>>))
                    ELSE SetJob(j, [up EXCEPT !.pc = StepAfter("generate")])
        /\ scratch' = Cleanup(SaveThumbnails(scratch, j, paths, written), jobs'[j])

\* what UploadThumbnailObject can do: "ok"; "local": stat, MIME detection or
\* open fails before the store is called; "store": UploadObjectForContent
\* fails and leaves no object; "partial": it fails and leaves an object that
\* is not uploaded; "after": the object is uploaded and the GetContent that
\* follows fails
UploadOutcomes == {"ok", "local", "store", "partial", "after"}

\* the ThumbnailResult uploadResultsStep appends for one thumbnail
ThumbnailResult(sizeName, id, status) ==
    [Size |-> sizeName, ContentID |-> IF status = "processed" THEN id ELSE 0,
     Status |-> status]

\* the status uploadResultsStep reports for a thumbnail: uploadOK is whether
\* UploadThumbnailObject returned nil, updateOK whether UpdateContentStatus did
ResultStatus(uploadOK, updateOK) ==
    IF ~uploadOK THEN "failed"
    ELSE IF ~updateOK THEN "failed"
    ELSE "processed"

\* variant: the loop ends at the first thumbnail that failed
NextThumbnailStop(jr, res) ==
    LET results == Append(jr.results, res)
    IN  IF Len(results) = Len(jr.thumbs) \/ res.Status = "failed"
        THEN CompleteJob(jr, results)
        ELSE [jr EXCEPT !.results = results, !.pc = "upload"]

\* the end of one iteration of uploadResultsStep's loop; after the last
\* thumbnail handleJob publishes the completion event
NextThumbnail(jr, res) ==
    LET results == Append(jr.results, res)
    IN  IF Len(results) = Len(jr.thumbs)
        THEN CompleteJob(jr, results)
        ELSE [jr EXCEPT !.results = results, !.pc = "upload"]

\* uploadResultsStep: the id lookup and UploadThumbnailObject for the next thumbnail
UploadResultsStep(j, outcome) ==
    LET jr == jobs[j]
        name == jr.thumbs[Len(jr.results) + 1]
        id == jr.ids[name]
        tr == [jr EXCEPT !.trace = Append(@, "upload"),
                         !.uploadErrs = IF outcome = "ok" THEN @ ELSE @ + 1]
        path == jr.paths[Len(jr.results) + 1]
    IN  /\ jr.pc = "upload"
        /\ id # 0 /\ ~Exists(scratch, path) => outcome = "local"
        /\ UNCHANGED <<parents, scan, gap, published, calc>>
        /\ IF id = 0
           THEN /\ SetJob(j, AbortJob(jr, PlainErr("derived content ID not found")))
                /\ UNCHANGED store
           ELSE /\ store' = CASE outcome \in {"ok", "after"} -> AddObject(store, id, "uploaded")
                              [] outcome = "partial" -> AddObject(store, id, "created")
                              [] OTHER -> store
                /\ IF outcome = "ok"
                   THEN SetJob(j, [tr EXCEPT !.pc = "setstatus"])
                   ELSE SetJob(j, NextThumbnail(tr,
                                 ThumbnailResult(name, id, ResultStatus(FALSE, FALSE))))
        /\ scratch' = Cleanup(scratch, jobs'[j])

\* uploadResultsStep: UpdateContentStatus(processed) after a successful upload
MarkProcessedStep(j, err) ==
    LET jr == jobs[j]
        name == jr.thumbs[Len(jr.results) + 1]
        id == jr.ids[name]
        path == jr.paths[Len(jr.results) + 1]
    IN  /\ jr.pc = "setstatus"
        /\ UNCHANGED <<parents, scan, gap, published, calc>>
        /\ store' = IF err = NoErr THEN UpdateContentStatus(store, id, "processed")
                    ELSE store
        /\ SetJob(j, NextThumbnail(jr,
                       ThumbnailResult(name, id, ResultStatus(TRUE, err = NoErr))))
        /\ scratch' = Cleanup(IF err = NoErr THEN RemoveFile(scratch, path) ELSE scratch,
                              jobs'[j])


----------------------------------------------------------------------------
(* Status-repair backfill: cmd/backfill *)

NoRef == [valid |-> FALSE, found |-> {}]

\* dryRef and gapRef are kept only while the store and the parents are as the
\* dry run saw them
KeepDiscovered ==
    /\ dryRef' = IF store' = store THEN dryRef ELSE NoRef
    /\ gapRef' = IF store' = store /\ parents' = parents THEN gapRef ELSE NoRef

\* runs, for a store that has been followed since it was set up ("off": it is
\* not): "none" when something other than a scan run wrote it or the clock
\* moved last, or a run's store call failed; "run1" and "done1" while the
\* first execute-mode run since then goes on and when it is over; "run2" and
\* "done2" likewise for every run after it
\*
\* runs after a step of the worker, the clock or a gap-filling run
RunsAfterOther(r, written) == IF r = "off" \/ ~written THEN r ELSE "none"

\* runs after an execute-mode run has listed its records; empty: it listed none
RunsAfterStart(r, empty) ==
    CASE r = "off" -> "off"
      [] r = "none" -> IF empty THEN "done1" ELSE "run1"
      [] OTHER -> IF empty THEN "done2" ELSE "run2"

\* runs after the processor handled a record; failed: Process returned an
\* error, last: the record was the last one listed
RunsAfterProcess(r, failed, last) ==
    IF r \in {"off", "none"} THEN r
    ELSE IF failed THEN "none"
    ELSE IF last THEN (IF r = "run1" THEN "done1" ELSE "done2")
    ELSE r

KeepRef ==
    /\ KeepDiscovered
    /\ runs' = RunsAfterOther(runs, store' # store)

\* failed: Process returned an error for the record handled last
IdleScan == [pc |-> "idle", dry |-> TRUE, queue |-> <<>>, found |-> {}, failed |-> FALSE]

\* variant: failed records are listed too
buildFiltersWithFailed(dryRun) == {"created", "processing", "uploaded", "failed"}

\* buildFilters: filters.Statuses (the derivation type filter keeps the scan
\* to derived content, which is all that store holds)
buildFilters(dryRun) == {"created", "processing", "uploaded"}

\* the content records the scanner lists, as it read them, in id order
RECURSIVE Snapshots(_, _)
Snapshots(st, ids) ==
    IF ids = {} THEN <<>>
    ELSE LET i == CHOOSE x \in ids : \A y \in ids : x <= y
         IN  <<[id |-> i, status |-> st[i].status, age |-> st[i].age]>>
             \o Snapshots(st, ids \ {i})

\* variant: no record is ever taken for stuck
IsStuckNever(derivedContent) == FALSE

\* time.Since(derivedContent.UpdatedAt) > time.Hour for a created or processing record
IsStuck(derivedContent) ==
    /\ derivedContent.status \in {"created", "processing"}
    /\ derivedContent.age > StaleHours

\* variant: processed whatever the objects' statuses are
TargetStatusAny(objects) == "processed"

\* variant: never processed
TargetStatusNone(objects) == "created"

\* targetStatus of fixDerivedContentStatus for a non-empty object list
TargetStatus(objects) ==
    IF \A i \in DOMAIN objects : objects[i] = "uploaded" THEN "processed" ELSE "created"

\* fixDerivedContentStatus on the record as listed; `fail` names the store call
\* that returns an error: "none", "get" (GetObjectsByContentID) or "update"
fixDerivedContentStatus(st, derivedContent, fail) ==
    LET objects == st[derivedContent.id].objs
    IN  IF IsStuck(derivedContent)
        THEN IF fail = "update" THEN st
             ELSE UpdateContentStatus(st, derivedContent.id, "failed")
        ELSE IF fail = "get" THEN st
        ELSE IF Len(objects) = 0 THEN st
        ELSE IF derivedContent.status # TargetStatus(objects)
             THEN IF fail = "update" THEN st
                  ELSE UpdateContentStatus(st, derivedContent.id, TargetStatus(objects))
        ELSE st

\* whether fixDerivedContentStatus returns an error on the record as listed
fixFails(st, derivedContent, fail) ==
    LET objects == st[derivedContent.id].objs
    IN  IF IsStuck(derivedContent) THEN fail = "update"
        ELSE IF fail = "get" THEN TRUE
        ELSE IF Len(objects) = 0 THEN FALSE
        ELSE derivedContent.status # TargetStatus(objects) /\ fail = "update"

\* variant: the processor runs in dry-run mode too
RunsProcessorAlways(dryRun) == TRUE

\* main: the processor is created only when dry-run is off
RunsProcessor(dryRun) == ~dryRun

\* main: scanner.Scan lists the records that match the filters.  In dry-run
\* mode no processor exists and the scan only counts them.
ScanStart(dryRun) ==
    LET found == {i \in DOMAIN store : store[i].status \in buildFilters(dryRun)}
    IN  /\ scan.pc = "idle"
        /\ scan' = [pc |-> IF ~RunsProcessor(dryRun) \/ found = {} THEN "idle" ELSE "run",
                    dry |-> dryRun,
                    queue |-> IF RunsProcessor(dryRun) THEN Snapshots(store, found) ELSE <<>>,
                    found |-> found,
                    failed |-> FALSE]
        /\ dryRef' = IF dryRun THEN [valid |-> TRUE, found |-> found] ELSE dryRef
        /\ runs' = IF RunsProcessor(dryRun) THEN RunsAfterStart(runs, found = {}) ELSE runs
        /\ UNCHANGED <<store, parents, jobs, gap, published, gapRef, calc, scratch>>

\* ThumbnailJobProcessor.Process on the next listed record
ScanProcess(fail) ==
    /\ scan.pc = "run"
    /\ store' = fixDerivedContentStatus(store, Head(scan.queue), fail)
    /\ scan' = [scan EXCEPT !.queue = Tail(@),
                            !.failed = fixFails(store, Head(scan.queue), fail),
                            !.pc = IF Len(scan.queue) = 1 THEN "idle" ELSE "run"]
    /\ UNCHANGED <<parents, jobs, gap, published, calc, scratch>>
    /\ KeepDiscovered
    /\ runs' = RunsAfterProcess(runs, fixFails(store, Head(scan.queue), fail),
                                 Len(scan.queue) = 1)

\* variant: Process handles content of every derivation type
ProcessSkipsNothing(derivationType) == FALSE

\* Process: content whose derivation type is not thumbnail is skipped
ProcessSkips(derivationType) == derivationType # "thumbnail"

\* the objects of a parent: one uploaded object once its upload completed
ParentObjects(p) == IF parents[p] = "uploaded" THEN <<"uploaded">> ELSE <<>>

\* ThumbnailJobProcessor.Process called, during an execute-mode scan, on the
\* content of a parent (derivation type ""); stale: its updated_at is more
\* than the threshold back
ProcessParent(p, stale) ==
    LET content == [status |-> parents[p], age |-> IF stale THEN StaleHours + 1 ELSE 0]
        objects == ParentObjects(p)
    IN  /\ scan.pc = "run"
        /\ parents' = IF ProcessSkips("") THEN parents
                      ELSE IF IsStuck(content) THEN [parents EXCEPT ![p] = "failed"]
                      ELSE IF Len(objects) = 0 THEN parents
                      ELSE [parents EXCEPT ![p] = TargetStatus(objects)]
        /\ UNCHANGED <<store, jobs, scan, gap, published, calc, scratch>>
        /\ KeepRef

----------------------------------------------------------------------------
(* Gap-filling backfill: the earlier cmd/backfill *)

\* parseSizes of THUMBNAIL_SIZES_BACKFILL, which names the sizes the worker is
\* configured with (by default both are small, medium, large)
BackfillSizes == [i \in DOMAIN ThumbnailSizes |-> ThumbnailSizes[i].Name]

\* discoverImages: uploaded, non-derived content whose MIME type is image/*
discoverImages == {p \in Parents : parents[p] = "uploaded" /\ GetGenerator(ParentMime[p]) = "image"}

\* filterImagesNeedingThumbnails: some requested "thumbnail_"+size is not
\* among the variants of the parent's derived content
NeedsThumbnails(p) ==
    LET existingVariants == {store[i].variant : i \in {k \in DOMAIN store : store[k].parent = p}}
    IN  \E i \in DOMAIN BackfillSizes : <<"thumbnail_", BackfillSizes[i]>> \notin existingVariants

\* checkHasThumbnails of the intermediate backfill: at least as many
\* thumbnail_ variants as requested sizes
checkHasThumbnails(p) ==
    LET uniqueVariants == {store[i].variant : i \in {k \in DOMAIN store :
                              store[k].parent = p /\ Head(store[k].variant) = "thumbnail_"}}
    IN  Cardinality(uniqueVariants) >= Len(BackfillSizes)

\* main: discover, filter, then publish one job per image unless dry-run;
\* `sent` are the parents whose publish succeeds
BackfillPublish(dryRun, sent) ==
    LET images == {p \in discoverImages : NeedsThumbnails(p)}
    IN  /\ sent \subseteq images
        /\ dryRun => sent = images
        /\ published' = IF dryRun THEN published ELSE published \cup sent
        /\ gap' = [dry |-> dryRun, images |-> images]
        /\ gapRef' = IF dryRun THEN [valid |-> TRUE, found |-> images] ELSE gapRef
        /\ UNCHANGED <<store, parents, jobs, scan, dryRef, calc, scratch, runs>>

----------------------------------------------------------------------------
(* Gap-filling scan processor: the cmd/backfill built on scan.ContentProcessor *)

\* isImage
isImage(mimeType) == HasPrefix(mimeType, "image/")

\* ThumbnailJobProcessor.fixContentStatus: every derived record of the parent
\* that has objects gets the status its objects give, uploaded when all of
\* them are uploaded and created otherwise; skip holds the records for which
\* a store call fails
fixContentStatus(st, p, skip) ==
    [i \in DOMAIN st |->
        IF st[i].parent # p \/ i \in skip \/ st[i].objs = <<>>
        THEN st[i]
        ELSE LET allUploaded == \A k \in DOMAIN st[i].objs : st[i].objs[k] = "uploaded"
                 targetStatus == IF allUploaded THEN "uploaded" ELSE "created"
             IN  IF st[i].status # targetStatus
                 THEN [st[i] EXCEPT !.status = targetStatus, !.age = 0]
                 ELSE st[i]]

\* what fails in a Process call: nothing, GetContentMetadata,
\* ListDerivedContent in checkHasThumbnails, or the publish
ProcessFailures == {"none", "meta", "list", "publish"}

\* ThumbnailJobProcessor.Process in execute mode on a parent the scan listed
\* (buildFilters: status uploaded, not derived); gap.images holds the parent
\* when the call published a job for it
GapProcess(p, onlyMissing, fixStatus, fail, skip) ==
    LET hasThumbnails == IF fail = "list" THEN FALSE ELSE checkHasThumbnails(p)
        skipped == onlyMissing /\ hasThumbnails
        reached == fail # "meta" /\ isImage(ParentMime[p])
        publishes == reached /\ ~skipped /\ fail # "publish"
    IN  /\ parents[p] = "uploaded"
        /\ fail = "publish" => reached /\ ~skipped
        /\ skip \subseteq {i \in DOMAIN store : store[i].parent = p}
        /\ skip # {} => reached /\ skipped /\ fixStatus
        /\ store' = IF reached /\ skipped /\ fixStatus
                    THEN fixContentStatus(store, p, skip)
                    ELSE store
        /\ published' = IF publishes THEN published \cup {p} ELSE published
        /\ gap' = [dry |-> FALSE, images |-> IF publishes THEN {p} ELSE {}]
        /\ UNCHANGED <<parents, jobs, scan, calc, scratch>>
        /\ KeepRef

----------------------------------------------------------------------------
(* Environment *)

\* an hour passes: every updated_at, in the store and in the records a running
\* scan has listed, is an hour older (ages past the threshold are not told apart)
Older(age) == IF age > StaleHours THEN age ELSE age + 1

Tick ==
    /\ store' = [i \in DOMAIN store |-> [store[i] EXCEPT !.age = Older(@)]]
    /\ scan' = [scan EXCEPT !.queue = [i \in DOMAIN scan.queue |->
                                         [scan.queue[i] EXCEPT !.age = Older(@)]]]
    /\ store' # store
    /\ UNCHANGED <<parents, jobs, gap, published, calc, scratch>>
    /\ KeepRef

\* the upload of a parent asset completes
ParentUploaded(p) ==
    /\ parents[p] = "created"
    /\ parents' = [parents EXCEPT ![p] = "uploaded"]
    /\ UNCHANGED <<store, jobs, scan, gap, published, calc, scratch>>
    /\ KeepRef

----------------------------------------------------------------------------

Errs == {NoErr} \cup {PlainErr(t) : t \in ErrTexts}

\* what a call that takes ctx returns once the deadline has passed
DeadlineErr == PlainErr("context deadline exceeded")

\* the deadline of the context handleJob was given passes while the job runs
DeadlineExpires(j) ==
    /\ jobs[j].pc \notin {"idle", "done"}
    /\ ~jobs[j].expired
    /\ jobs' = [jobs EXCEPT ![j].expired = TRUE]
    /\ UNCHANGED <<store, parents, scan, gap, published, dryRef, gapRef, calc, scratch, runs>>

\* the results of the job's next store call: with the deadline passed the
\* call is aborted and returns the context's error
CtxErrs(j) == IF jobs[j].expired THEN {DeadlineErr} ELSE Errs

\* the results of Generate: ImageGenerator.Generate, the only generator the
\* parents here select, never reads ctx
GenerateErrs(j) == Errs

\* the outcomes of the job's next UploadThumbnailObject: with the deadline
\* passed it returns an error, before or after the object was written
CtxUploadOutcomes(j) ==
    IF jobs[j].expired THEN UploadOutcomes \ {"ok"} ELSE UploadOutcomes

Init ==
    /\ store = <<>>
    /\ parents = [p \in Parents |-> IF p = "p1" THEN "uploaded" ELSE "created"]
    /\ jobs = [j \in Jobs |-> IdleJob]
    /\ scan = IdleScan
    /\ gap = [dry |-> TRUE, images |-> {}]
    /\ published = {}
    /\ dryRef = NoRef
    /\ gapRef = NoRef
    /\ calc = NoCalc
    /\ scratch = {}
    /\ runs = "off"

\* the steps of handleJob invocations
JobNext ==
    \/ \E j \in Jobs : /\ jobs[j].pc = "idle"
                       /\ \E attr \in CidValues, fileID \in CidValues, hint \in Hints, e \in Errs :
                             HandleJobStart(j, attr, fileID, hint, e)
                       /\ KeepRef
    \/ \E j \in Jobs : \E e \in CtxErrs(j) : CreateDerivedContentRecords(j, e) /\ KeepRef
    \/ \E j \in Jobs : \E e \in CtxErrs(j), metaOK \in BOOLEAN :
          FetchSourceStep(j, e, metaOK) /\ KeepRef
    \/ \E j \in Jobs, n \in SizeNames : \E e \in CtxErrs(j) :
          UpdateDerivedContentStatusAfterDownload(j, n, e) /\ KeepRef
    \/ \E j \in Jobs : \E e \in GenerateErrs(j), w \in 0..(MaxHintLen + MaxSizes) :
          GenerateStep(j, e, w) /\ KeepRef
    \/ \E j \in Jobs : \E o \in CtxUploadOutcomes(j) : UploadResultsStep(j, o) /\ KeepRef
    \/ \E j \in Jobs : \E e \in CtxErrs(j) : MarkProcessedStep(j, e) /\ KeepRef
    \/ \E j \in Jobs : DeadlineExpires(j)

\* the status-repair scanner
ScanNext ==
    \/ \E d \in BOOLEAN : ScanStart(d)
    \/ \E f \in {"none", "get", "update"} : ScanProcess(f)
    \/ \E p \in Parents, stale \in BOOLEAN : ProcessParent(p, stale)

\* the worker, the status-repair backfill and the clock
Next ==
    \/ JobNext
    \/ ScanNext
    \/ Tick

Spec == Init /\ [][Next]_vars

\* the worker and both backfill tools, with parent uploads completing
BackfillNext ==
    \/ JobNext
    \/ ScanNext
    \/ \E d \in BOOLEAN, sent \in SUBSET Parents : BackfillPublish(d, sent)
    \/ \E p \in Parents : ParentUploaded(p)

BackfillSpec == Init /\ [][BackfillNext]_vars

\* content statuses a derived record left in the store can have
ContentStatuses == {"created", "processing", "processed", "uploaded", "failed"}

\* derived records as earlier worker runs, crashes and releases left them
StoredRecords ==
    [ job : {0}, parent : {"p1"}, size : {"small"},
      variant : {deriveSizeVariant(150, 150)},
      status : ContentStatuses, age : {0, StaleHours + 1},
      objs : {<<>>, <<"uploaded">>, <<"created">>} ]

\* the status-repair backfill run against a store it did not fill
RepairInit ==
    /\ store \in UNION {[1..n -> StoredRecords] : n \in 1..MaxStored}
    /\ parents = [p \in Parents |-> "uploaded"]
    /\ jobs = [j \in Jobs |-> IdleJob]
    /\ scan = IdleScan
    /\ gap = [dry |-> TRUE, images |-> {}]
    /\ published = {}
    /\ dryRef = NoRef
    /\ gapRef = NoRef
    /\ calc = NoCalc
    /\ scratch = {}
    /\ runs = "off"

RepairNext ==
    \/ ScanNext
    \/ Tick

RepairSpec == RepairInit /\ [][RepairNext]_vars

\* the status-repair backfill run again and again against a store it did not
\* fill, with its runs followed
RescanInit ==
    /\ store \in UNION {[1..n -> StoredRecords] : n \in 1..MaxStored}
    /\ parents = [p \in Parents |-> "uploaded"]
    /\ jobs = [j \in Jobs |-> IdleJob]
    /\ scan = IdleScan
    /\ gap = [dry |-> TRUE, images |-> {}]
    /\ published = {}
    /\ dryRef = NoRef
    /\ gapRef = NoRef
    /\ calc = NoCalc
    /\ scratch = {}
    /\ runs = "none"

RescanSpec == RescanInit /\ [][RepairNext]_vars

\* GetGenerator called with a MIME type
CallGetGenerator ==
    /\ calc = NoCalc
    /\ \E mimeType \in MimeTypes :
          calc' = [fn |-> "GetGenerator", mimeType |-> mimeType,
                   generator |-> GetGenerator(mimeType)]
    /\ UNCHANGED <<store, parents, jobs, scan, gap, published, dryRef, gapRef, scratch, runs>>

\* the filename attribute of a job's file block: absent, a string, or a value
\* of another type
NameAttributes ==
    { [kind |-> "absent", text |-> ""], [kind |-> "string", text |-> ""],
      [kind |-> "string", text |-> "attr.png"], [kind |-> "number", text |-> "7"] }

\* handleJob step 6 on a job's file block and the source FetchSource returned
\* for it
CallResolveName ==
    /\ calc = NoCalc
    /\ \E fileName \in {"", "override.png"}, attribute \in NameAttributes,
          metaOK \in BOOLEAN, metaFileName \in {"", "photo.jpg"},
          sourcePath \in {"", "inbox/scan.png", "scan.png", "inbox/"} :
          LET sourceFilename == FetchSourceFilename(metaOK, metaFileName)
          IN  calc' = [fn |-> "ResolveName",
                       fileName |-> fileName,
                       attribute |-> attribute,
                       sourceFilename |-> sourceFilename,
                       sourcePath |-> sourcePath,
                       out |-> ResolveName(fileName, AttrFilename(attribute),
                                           sourceFilename, sourcePath)]
    /\ UNCHANGED <<store, parents, jobs, scan, gap, published, dryRef, gapRef, scratch, runs>>

\* the worker's pure functions, each called on its own
PureNext ==
    \/ CallParseThumbnailSizesHint
    \/ CallDeriveSizeVariant
    \/ CallClassifyError
    \/ CallGetGenerator
    \/ CallResolveName

PureSpec == Init /\ [][PureNext]_vars

\* the worker, both gap-filling backfill tools and parent uploads completing
GapScanNext ==
    \/ JobNext
    \/ \E d \in BOOLEAN, sent \in SUBSET Parents : BackfillPublish(d, sent)
    \/ \E p \in Parents, onlyMissing \in BOOLEAN, fixStatus \in BOOLEAN,
          fail \in ProcessFailures, skip \in SUBSET DOMAIN store :
          GapProcess(p, onlyMissing, fixStatus, fail, skip)
    \/ \E p \in Parents : ParentUploaded(p)

GapScanSpec == Init /\ [][GapScanNext]_vars

\* the worker alone: one handleJob invocation and nothing else acting on the store
SoloSpec == Init /\ [][JobNext]_vars

Workers == 1..MaxWorkers

\* the worker running MaxWorkers handleJob invocations at once, each for a
\* job on the uploaded parent p1 that names its content in
\* attributes.content_id, with or without a size hint; the store calls
\* succeed and an upload either succeeds or fails locally
TwoJobInit ==
    /\ store = <<>>
    /\ parents = [p \in Parents |-> IF p = "p1" THEN "uploaded" ELSE "created"]
    /\ jobs = [j \in Workers |-> IdleJob]
    /\ scan = IdleScan
    /\ gap = [dry |-> TRUE, images |-> {}]
    /\ published = {}
    /\ dryRef = NoRef
    /\ gapRef = NoRef
    /\ calc = NoCalc
    /\ scratch = {}
    /\ runs = "off"

TwoJobNext ==
    \/ \E j \in Workers, hint \in {<<>>, <<"small">>} :
          HandleJobStart(j, "p1", "", hint, NoErr) /\ KeepRef
    \/ \E j \in Workers : CreateDerivedContentRecords(j, NoErr) /\ KeepRef
    \/ \E j \in Workers : FetchSourceStep(j, NoErr, TRUE) /\ KeepRef
    \/ \E j \in Workers, n \in SizeNames :
          UpdateDerivedContentStatusAfterDownload(j, n, NoErr) /\ KeepRef
    \/ \E j \in Workers : GenerateStep(j, NoErr, Len(jobs[j].sizes)) /\ KeepRef
    \/ \E j \in Workers, o \in {"ok", "local"} : UploadResultsStep(j, o) /\ KeepRef
    \/ \E j \in Workers : MarkProcessedStep(j, NoErr) /\ KeepRef

TwoJobSpec == TwoJobInit /\ [][TwoJobNext]_vars

\* the most derived records the jobs can create
MaxRecords ==
    MaxJobs * (IF MaxHintLen > Len(ThumbnailSizes) THEN MaxHintLen ELSE Len(ThumbnailSizes))

RecordIds == 1..MaxRecords

\* Spec when the status-repair backfill keeps being run in execute mode, each
\* run goes through the records it listed, and for every record the store
\* calls of fixDerivedContentStatus eventually succeed
LiveSpec ==
    /\ Init /\ [][Next]_vars
    /\ WF_vars(ScanStart(FALSE))
    /\ WF_vars(\E f \in {"none", "get", "update"} : ScanProcess(f))
    /\ \A i \in RecordIds : SF_vars(ScanProcess("none") /\ Head(scan.queue).id = i)

----------------------------------------------------------------------------
(* Properties *)

RecordsOf(j) == {i \in DOMAIN store : store[i].job = j}

HasUploadedObject(i) == \E k \in DOMAIN store[i].objs : store[i].objs[k] = "uploaded"

\* C1: in every reachable state a derived record whose status is processed
\* has a backing object whose upload succeeded, whether the pipeline or the
\* status-repair scanner wrote the status.
C1_ProcessedHasUploadedObject ==
    \A i \in DOMAIN store : store[i].status = "processed" => HasUploadedObject(i)

\* a finished job whose own upload made one record processed, and a second
\* record of the job whose upload failed after storing the object and which
\* the scanner made processed
C1_Witness ==
    \E j \in Jobs : \E a, b \in RecordsOf(j) :
        /\ a # b
        /\ jobs[j].pc = "done"
        /\ store[a].status = "processed" /\ store[b].status = "processed"
        /\ \E k \in DOMAIN jobs[j].results :
              jobs[j].results[k].Status = "processed" /\ jobs[j].results[k].ContentID = a
        /\ \E k \in DOMAIN jobs[j].results :
              jobs[j].results[k].Status = "failed" /\ jobs[j].ids[jobs[j].results[k].Size] = b

\* C2: a handleJob invocation that has returned has published exactly one
\* ThumbnailDone, a completion (no error) when it returned nil and a failure
\* (with the error) when it returned an error; one still running has published none.
C2_OneTerminalEvent ==
    \A j \in Jobs :
        /\ jobs[j].ret = "none" => Len(jobs[j].done) = 0
        /\ jobs[j].ret = "nil" => Len(jobs[j].done) = 1 /\ jobs[j].done[1].Error = ""
        /\ jobs[j].ret = "error" => Len(jobs[j].done) = 1 /\ jobs[j].done[1].Error # ""

\* a job that failed after its placeholder records existed and published its
\* single failure event
C2_Witness ==
    \E j \in Jobs :
        /\ jobs[j].ret = "error"
        /\ RecordsOf(j) # {}
        /\ Len(jobs[j].done) = 1
        /\ jobs[j].done[1].FailureType = FailureTypeRetryable

\* the step in which handleJob of job j returns nil
Completes(j) == jobs[j].pc # "done" /\ jobs'[j].pc = "done" /\ jobs'[j].ret = "nil"

\* C3: when a job with N sizes and N outputs completes with exactly one
\* failed upload and no other failure, its completion event reports
\* total_processed = N-1 and total_failed = 1, the record of the failing size
\* is failed and the job's other records are processed.
C3_PartialUploadReport ==
    [][\A j \in Jobs :
         (/\ Completes(j)
          /\ Len(jobs'[j].thumbs) = Len(jobs'[j].sizes)
          /\ jobs'[j].uploadErrs = 1
          /\ CountFailed(jobs'[j].results) = 1)
         => LET n == Len(jobs'[j].sizes)
                bad == CHOOSE k \in DOMAIN jobs'[j].results : jobs'[j].results[k].Status # "processed"
                badId == jobs'[j].ids[jobs'[j].results[bad].Size]
            IN  /\ jobs'[j].done[1].TotalProcessed = n - 1
                /\ jobs'[j].done[1].TotalFailed = 1
                /\ store'[badId].status = "failed"
                /\ \A i \in RecordsOf(j) \ {badId} : store'[i].status = "processed"]_vars

\* a two-size job that completed with one failed upload: its event counts
\* both results as processed, and the record of the failed size is still processing
C3_Witness ==
    \E j \in Jobs :
        /\ jobs[j].ret = "nil"
        /\ Len(jobs[j].sizes) = 2
        /\ jobs[j].uploadErrs = 1
        /\ CountFailed(jobs[j].results) = 1
        /\ jobs[j].done[1].TotalProcessed = 2
        /\ jobs[j].done[1].TotalFailed = 1
        /\ \E i \in RecordsOf(j) : store[i].status = "processing" /\ store[i].objs = <<>>

\* C4: a handleJob invocation that read a parent status other than uploaded
\* has returned an error, its ThumbnailDone carries failure type validation,
\* and the invocation created no derived record.
C4_ParentNotUploaded ==
    \A j \in Jobs :
        (jobs[j].pc # "idle" /\ jobs[j].parent \in Parents
           /\ jobs[j].parentStatus \notin {"", "uploaded"})
        => /\ jobs[j].ret = "error"
           /\ Len(jobs[j].done) = 1
           /\ jobs[j].done[1].FailureType = FailureTypeValidation
           /\ RecordsOf(j) = {}

\* a job for the parent that is still in created
C4_Witness ==
    \E j \in Jobs :
        /\ jobs[j].pc = "done"
        /\ jobs[j].parentStatus = "created"
        /\ jobs[j].done[1].FailureType = FailureTypeValidation

Count(seq, x) == Cardinality({k \in DOMAIN seq : seq[k] = x})

\* the source fetch of job j has begun or is about to
FetchBegun(j) == jobs[j].pc = "fetch" \/ Count(jobs[j].trace, "download") > 0

\* C5: from the moment the source fetch of a job begins, the job has created
\* as many derived records as it resolved size specs, and the number stays so
\* through every later stage.
C5_RecordsMatchSizes ==
    \A j \in Jobs : FetchBegun(j) => Cardinality(RecordsOf(j)) = Len(jobs[j].sizes)

\* a completed job whose hint named the same size twice: two size specs, two records
C5_Witness ==
    \E j \in Jobs :
        /\ jobs[j].ret = "nil"
        /\ Len(jobs[j].sizes) = 2
        /\ jobs[j].sizes[1] = jobs[j].sizes[2]
        /\ Cardinality(RecordsOf(j)) = 2

\* C6: in the external calls of one handleJob invocation every download has
\* all placeholder creations before it, every Generate has the download
\* before it, every upload has Generate before it, and no call of an earlier
\* stage follows a call of a later one.
StageRank(call) ==
    CASE call = "create" -> 1 [] call = "download" -> 2
      [] call = "generate" -> 3 [] call = "upload" -> 4

C6_StagesInOrder ==
    \A j \in Jobs :
        LET t == jobs[j].trace
        IN  /\ \A a, b \in DOMAIN t : a < b => StageRank(t[a]) <= StageRank(t[b])
            /\ \A k \in DOMAIN t :
                  /\ t[k] = "download" => Count(SubSeq(t, 1, k - 1), "create") = Len(jobs[j].sizes)
                  /\ t[k] = "generate" => Count(SubSeq(t, 1, k - 1), "download") = 1
                  /\ t[k] = "upload" => Count(SubSeq(t, 1, k - 1), "generate") = 1

\* a job that made two creations, the download, Generate and two uploads
C6_Witness ==
    \E j \in Jobs :
        jobs[j].trace = <<"create", "create", "download", "generate", "upload", "upload">>

\* the authoritative transitions of a derived record's status
StatusEdges ==
    { <<"created", "processing">>, <<"processing", "processed">>,
      <<"created", "failed">>, <<"processing", "failed">>,
      <<"failed", "processing">>,
      <<"processed", "deleted">>, <<"failed", "deleted">> }

\* the step in which the scanner's processor handles the next listed record
ScanHandles == scan.pc = "run" /\ Len(scan'.queue) < Len(scan.queue)

\* C7: every status write follows an edge of the state machine, judged
\* against the status the writer holds for the record: the listed status for
\* the scanner, created for the pipeline's write after download, processing
\* for its write after upload.
C7_WritesFollowEdges ==
    [][/\ (ScanHandles /\ store' # store)
          => <<Head(scan.queue).status, store'[Head(scan.queue).id].status>> \in StatusEdges
       /\ \A j \in Jobs : \A i \in DOMAIN store :
             (jobs'[j] # jobs[j] /\ store'[i].status # store[i].status)
             => \/ jobs[j].pc = "mark" /\ <<"created", store'[i].status>> \in StatusEdges
                \/ jobs[j].pc = "setstatus" /\ <<"processing", store'[i].status>> \in StatusEdges]_vars

\* a record the scanner moved back to created: it holds an object, which
\* only the upload stage stores, after the record was made processing
C7_Witness ==
    \E i \in DOMAIN store : store[i].status = "created" /\ store[i].objs # <<>>

\* record i is created or processing and its updated_at is more than an hour old
Stale(i) ==
    /\ i \in DOMAIN store
    /\ store[i].status \in {"created", "processing"}
    /\ store[i].age > StaleHours

\* C8: a record that is created or processing with updated_at more than an
\* hour old does not stay so forever while execute-mode scans keep running
\* and their store calls succeed: it becomes failed, unless the pipeline
\* writes it first.
C8_StaleEventuallyFailed ==
    \A i \in RecordIds : Stale(i) ~> (~Stale(i) \/ store[i].status = "failed")

\* a record the scanner has marked failed
C8_Witness ==
    \E i \in DOMAIN store : store[i].status = "failed" /\ scan.dry = FALSE /\ i \in scan.found

AllUploaded(objects) == \A k \in DOMAIN objects : objects[k] = "uploaded"

\* C9: when the processor handles a listed record that is created or
\* processing and not older than the threshold, and its store calls succeed,
\* the record becomes processed if it has objects and all are uploaded, and
\* is left as it is if it has no object.
C9_FreshRecordRepair ==
    [][(/\ ScanHandles
        /\ ~scan'.failed
        /\ Head(scan.queue).status \in {"created", "processing"}
        /\ Head(scan.queue).age <= StaleHours)
       => LET id == Head(scan.queue).id
              objects == store[id].objs
          IN  /\ (objects # <<>> /\ AllUploaded(objects)) => store'[id].status = "processed"
              /\ objects = <<>> => store'[id] = store[id]]_vars

\* a finished execute scan that made one fresh record with an uploaded object
\* processed and left another fresh record without objects in processing
C9_Witness ==
    /\ scan.pc = "idle" /\ ~scan.dry /\ ~scan.failed
    /\ \E a, b \in scan.found :
          /\ store[a].status = "processed" /\ store[a].age = 0
          /\ \E j \in Jobs : \E k \in DOMAIN jobs[j].results :
                jobs[j].results[k].Status = "failed" /\ jobs[j].ids[jobs[j].results[k].Size] = a
          /\ store[b].status = "processing" /\ store[b].objs = <<>>
          /\ store[b].age <= StaleHours

\* steps of a dry run: the start of a dry-run scan, a record handled during
\* one, a dry run of the gap-filling backfill
DryScanStart == scan.pc = "idle" /\ scan'.dry /\ (scan' # scan \/ (dryRef'.valid /\ dryRef' # dryRef))
DryScanHandles == ScanHandles /\ scan.dry
DryGapRun == gap'.dry /\ (gap' # gap \/ (gapRef'.valid /\ gapRef' # gapRef))

ProcessedUnbacked(i) == store[i].status = "processed" /\ ~HasUploadedObject(i)

\* C11: an execute-mode scan lists every record that is processed without
\* an uploaded object, and when the processor handles such a record without a
\* store error the record leaves processed.
C11_UnbackedProcessedRepaired ==
    [][/\ (scan.pc = "idle" /\ ~scan'.dry /\ scan' # scan)
          => \A i \in DOMAIN store : ProcessedUnbacked(i) => i \in scan'.found
       /\ (ScanHandles /\ ~scan'.failed /\ ProcessedUnbacked(Head(scan.queue).id))
          => store'[Head(scan.queue).id].status # "processed"]_vars

\* an execute scan that ended without an error and left such a record as it was
C11_Witness ==
    /\ scan.pc = "idle" /\ ~scan.dry /\ ~scan.failed /\ scan.found # {}
    /\ \E i \in DOMAIN store : ProcessedUnbacked(i) /\ i \notin scan.found

Names(sizes) == {sizes[k].Name : k \in DOMAIN sizes}

Tokens(hint) == {hint[k] : k \in DOMAIN hint}

SelectionReached(j) == Len(jobs[j].lifeMsgs) >= 1 /\ jobs[j].pc # "generate"

\* C13: a job whose source MIME type no generator supports does not end at
\* generator selection: Generate is called on the image generator, and the
\* job has logged the fallback warning.
C13_UnsupportedFallsBack ==
    \A j \in Jobs :
        (SelectionReached(j) /\ GetGenerator(jobs[j].mime) = "")
        => /\ Count(jobs[j].trace, "generate") = 1
           /\ jobs[j].generator = "image"
           /\ \E k \in DOMAIN jobs[j].warnings : jobs[j].warnings[k] = FallbackWarning

\* a job for an archive that completed on the image generator
C13_Witness ==
    \E j \in Jobs :
        /\ jobs[j].mime = "application/zip"
        /\ jobs[j].ret = "nil"
        /\ jobs[j].generator = "image"
        /\ jobs[j].warnings = <<FallbackWarning>>

\* C14: deriveSizeVariant gives the same name for the same pair, in the
\* worker and in the upload client, different names for different pairs,
\* thumbnail_<w> when width and height are equal and thumbnail_<w>x<h>
\* when they differ.
C14_VariantNames ==
    calc.fn = "deriveSizeVariant" =>
        /\ calc.again = calc.outA
        /\ calc.upload = calc.outA
        /\ calc.a = calc.b <=> calc.outA = calc.outB
        /\ calc.a[1] = calc.a[2] => calc.outA = <<"thumbnail_">> \o Digits(calc.a[1])
        /\ calc.a[1] # calc.a[2] =>
              calc.outA = <<"thumbnail_">> \o Digits(calc.a[1]) \o <<"x">> \o Digits(calc.a[2])
        /\ calc.a = <<512, 512>> => calc.outA = <<"thumbnail_", "5", "1", "2">>
        /\ calc.a = <<512, 384>> => calc.outA = <<"thumbnail_", "5", "1", "2", "x", "3", "8", "4">>

\* the pairs (1, 11) and (11, 1), whose digits are the same
C14_Witness ==
    /\ calc.fn = "deriveSizeVariant"
    /\ calc.a = <<1, 11>> /\ calc.b = <<11, 1>>
    /\ calc.outA = <<"thumbnail_", "1", "x", "1", "1">>
    /\ calc.outB = <<"thumbnail_", "1", "1", "x", "1">>

\* parent p has a derived record for every size the backfill requests
HasEveryRendition(p) ==
    \A k \in DOMAIN BackfillSizes :
        \E i \in DOMAIN store : store[i].parent = p /\ store[i].size = BackfillSizes[k]

\* C15: for every requested size the variant name the gap-filling backfill
\* looks for is the name the pipeline stored on the record of that size, so
\* the backfill takes a discovered parent to need thumbnails exactly when a
\* requested size has no record, and checkHasThumbnails agrees.
C15_VariantNamesAgree ==
    /\ \A i \in DOMAIN store :
          (\E k \in DOMAIN BackfillSizes : BackfillSizes[k] = store[i].size)
          => store[i].variant = <<"thumbnail_", store[i].size>>
    /\ \A p \in discoverImages :
          /\ NeedsThumbnails(p) <=> ~HasEveryRendition(p)
          /\ checkHasThumbnails(p) <=> HasEveryRendition(p)

\* a parent with a processed record for every requested size that the
\* backfill still takes to need thumbnails
C15_Witness ==
    \E p \in discoverImages :
        /\ HasEveryRendition(p)
        /\ \A i \in DOMAIN store : store[i].parent = p => store[i].status = "processed"
        /\ NeedsThumbnails(p)
        /\ gap.images = {p} /\ ~gap.dry /\ published = {p}

\* C16: an upload that fails adds a failed result for its size and leaves
\* the job running or completed, never failed; a job that completes has made
\* one upload call per thumbnail Generate returned, and its ThumbnailDone
\* lists one result per thumbnail, in order.
C16_UploadsIndependent ==
    [][\A j \in Jobs :
         /\ jobs'[j].uploadErrs = jobs[j].uploadErrs + 1
            => LET k == Len(jobs[j].results) + 1
               IN  /\ Len(jobs'[j].results) = k
                   /\ jobs'[j].results[k].Size = jobs[j].thumbs[k]
                   /\ jobs'[j].results[k].Status = "failed"
                   /\ jobs'[j].ret # "error"
         /\ (Completes(j) /\ Len(jobs'[j].thumbs) > 0)
            => /\ Count(jobs'[j].trace, "upload") = Len(jobs'[j].thumbs)
               /\ jobs'[j].done[1].Results = jobs'[j].results
               /\ Len(jobs'[j].results) = Len(jobs'[j].thumbs)
               /\ \A k \in DOMAIN jobs'[j].results :
                     jobs'[j].results[k].Size = jobs'[j].thumbs[k]]_vars

\* a completed two-size job whose first upload failed and whose second succeeded
C16_Witness ==
    \E j \in Jobs :
        /\ jobs[j].ret = "nil"
        /\ Len(jobs[j].results) = 2
        /\ jobs[j].results[1].Status = "failed"
        /\ jobs[j].results[2].Status = "processed"
        /\ Count(jobs[j].trace, "upload") = 2

\* handleJob of job j has published the upload lifecycle event
UploadReached(j) == \E k \in DOMAIN jobs[j].lifeMsgs : jobs[j].lifeMsgs[k] = StageUpload

\* C17: a job that has reached the upload stage does not return an error:
\* when it returns it returns nil, its ThumbnailDone carries no error and no
\* failure type, its last lifecycle event is completed, and the failed sizes
\* show in total_failed and the results.
C17_UploadStageCompletes ==
    \A j \in Jobs :
        UploadReached(j)
        => /\ jobs[j].ret # "error"
           /\ jobs[j].pc = "done"
              => /\ jobs[j].ret = "nil"
                 /\ Len(jobs[j].done) = 1
                 /\ jobs[j].done[1].Error = ""
                 /\ jobs[j].done[1].FailureType = ""
                 /\ jobs[j].done[1].TotalFailed = CountFailed(jobs[j].results)
                 /\ jobs[j].lifecycle[Len(jobs[j].lifecycle)].Stage = StageCompleted

\* a job that returned nil although both of its uploads failed
C17_Witness ==
    \E j \in Jobs :
        /\ jobs[j].ret = "nil"
        /\ Len(jobs[j].results) = 2
        /\ jobs[j].uploadErrs = 2
        /\ jobs[j].done[1].TotalFailed = 2
        /\ jobs[j].done[1].Error = ""

FailureTypes == {FailureTypeRetryable, FailureTypePermanent, FailureTypeValidation}

\* C18: a handleJob invocation has returned an error exactly when its
\* ThumbnailDone carries an error text and a failure type, and has returned
\* nil exactly when the ThumbnailDone carries neither.
C18_ChannelsAgree ==
    \A j \in Jobs :
        jobs[j].pc = "done"
        => /\ Len(jobs[j].done) = 1
           /\ jobs[j].ret = "error"
              <=> (jobs[j].done[1].Error # "" /\ jobs[j].done[1].FailureType \in FailureTypes)
           /\ jobs[j].ret = "nil"
              <=> (jobs[j].done[1].Error = "" /\ jobs[j].done[1].FailureType = "")

\* a job that returned the error of a failed Generate, emitted as permanent
C18_Witness ==
    \E j \in Jobs :
        /\ jobs[j].ret = "error"
        /\ Count(jobs[j].trace, "generate") = 1
        /\ jobs[j].done[1].Error = "no such file"
        /\ jobs[j].done[1].FailureType = FailureTypePermanent

MatchesTransient(err) == \E sig \in TransientSignatures : Contains(err.text, sig)

MatchesPermanent(err) == \E sig \in PermanentSignatures : Contains(err.text, sig)

\* C19, as claimed: classifyError gives a ValidationError the tag it carries,
\* any other error that matches a transient signature retryable, one that
\* matches a permanent signature permanent, and an unrecognised one retryable.
C19_ClassifyAsClaimed ==
    calc.fn = "classifyError" =>
        /\ calc.out \in FailureTypes
        /\ calc.err.tag # "" => calc.out = calc.err.tag
        /\ (calc.err.tag = "" /\ MatchesTransient(calc.err)) => calc.out = FailureTypeRetryable
        /\ (calc.err.tag = "" /\ MatchesPermanent(calc.err)) => calc.out = FailureTypePermanent
        /\ (calc.err.tag = "" /\ ~MatchesTransient(calc.err) /\ ~MatchesPermanent(calc.err))
             => calc.out = FailureTypeRetryable

\* C19, amended: as claimed, but an error that is no ValidationError is
\* permanent only when it matches a permanent signature and no transient one;
\* the transient signatures are looked for first.
C19_ClassifyTransientFirst ==
    calc.fn = "classifyError" =>
        /\ calc.out \in FailureTypes
        /\ calc.err.tag # "" => calc.out = calc.err.tag
        /\ (calc.err.tag = "" /\ MatchesTransient(calc.err)) => calc.out = FailureTypeRetryable
        /\ (calc.err.tag = "" /\ MatchesPermanent(calc.err) /\ ~MatchesTransient(calc.err))
             => calc.out = FailureTypePermanent
        /\ (calc.err.tag = "" /\ ~MatchesTransient(calc.err) /\ ~MatchesPermanent(calc.err))
             => calc.out = FailureTypeRetryable

\* an error whose text holds a permanent and a transient signature, classified retryable
C19_Witness ==
    /\ calc.fn = "classifyError"
    /\ calc.err.tag = ""
    /\ MatchesPermanent(calc.err) /\ MatchesTransient(calc.err)
    /\ calc.out = FailureTypeRetryable

\* the ThumbnailDone message a finished job published last
LastDone(j) == jobs[j].done[Len(jobs[j].done)]

\* the job has finished and the deadline aborted the last store call it made:
\* the call behind its failure exit, or the one behind its last result (the
\* deadline passes while the job runs, so it passed before that call returned)
DeadlineAborted(j) ==
    /\ jobs[j].expired
    /\ jobs[j].pc = "done"
    /\ \/ jobs[j].results # <<>>
       \/ /\ jobs[j].lifecycle # <<>>
          /\ jobs[j].lifecycle[Len(jobs[j].lifecycle)].Error = DeadlineErr.text

\* C20: a job whose deadline passed after processing had started, during a
\* per-size upload included, ends with handleJob returning an error and a
\* ThumbnailDone message whose failure type is retryable.
C20_DeadlineReportsRetryable ==
    \A j \in Jobs :
        DeadlineAborted(j) =>
            /\ jobs[j].ret = "error"
            /\ jobs[j].done # <<>>
            /\ LastDone(j).FailureType = FailureTypeRetryable

\* a job whose deadline passed during a per-size upload has finished: every
\* result it reports is failed and it returned nil
C20_Witness ==
    \E j \in Jobs :
        /\ DeadlineAborted(j)
        /\ jobs[j].uploadErrs > 0
        /\ CountFailed(jobs[j].results) = Len(jobs[j].results)
        /\ jobs[j].ret = "nil"
        /\ LastDone(j).FailureType = ""

\* the identifier the envelope resolves to: attributes.content_id when it is a
\* non-empty string, else the file block's id
Resolved(attr, fileID) == IF attr # "" THEN attr ELSE fileID

\* C21: a handleJob invocation whose envelope resolves to no identifier or to
\* one that is no UUID ends at once with an error, a ThumbnailDone classified
\* validation and no derived record created; any other envelope makes the job
\* work on attributes.content_id when that is non-empty, else on the file
\* block's id.
C21_ContentIdResolved ==
    [][\A j \in Jobs : jobs[j].pc = "idle" /\ jobs'[j].pc # "idle" =>
        \A attr \in CidValues, fileID \in CidValues, hint \in Hints, e \in Errs :
          HandleJobStart(j, attr, fileID, hint, e) =>
             IF Resolved(attr, fileID) \in {"", "not-a-uuid"}
             THEN /\ jobs'[j].pc = "done"
                  /\ jobs'[j].ret = "error"
                  /\ Len(jobs'[j].done) = 1
                  /\ jobs'[j].done[1].FailureType = FailureTypeValidation
                  /\ jobs'[j].lifecycle = <<>>
                  /\ store' = store
             ELSE jobs'[j].parent = Resolved(attr, fileID)]_vars

\* a job was rejected for an identifier that is no UUID, and made no record
C21_Witness ==
    \E j \in Jobs :
        /\ jobs[j].pc = "done"
        /\ jobs[j].done # <<>>
        /\ LastDone(j).Error = "invalid UUID"
        /\ LastDone(j).FailureType = FailureTypeValidation
        /\ RecordsOf(j) = {}

\* the stages of the job's lifecycle trail, in order
TrailStages(j) == [k \in DOMAIN jobs[j].lifecycle |-> jobs[j].lifecycle[k].Stage]

\* C22: every stage transition in a job's lifecycle trail has been published
\* as a lifecycle message of its own: the stages published on the lifecycle
\* subject are the stages of the trail, in the same order.
C22_EveryTransitionPublished ==
    \A j \in Jobs : jobs[j].lifeMsgs = TrailStages(j)

\* a job has completed: its trail holds validation, processing, upload and
\* completed, and the lifecycle subject got processing and upload only
C22_Witness ==
    \E j \in Jobs :
        /\ jobs[j].ret = "nil"
        /\ TrailStages(j) = <<StageValidation, StageProcessing, StageUpload, StageCompleted>>
        /\ jobs[j].lifeMsgs = <<StageProcessing, StageUpload>>

\* the scratch files job j wrote that are still on the filesystem
FilesOf(j) == {f \in scratch : f.by = j}

\* C23: when handleJob has returned, successfully or with a failure at any
\* stage, no scratch file of the job is left: neither the fetched source nor
\* a rendered output.
C23_ScratchReleased ==
    \A j \in Jobs : jobs[j].pc = "done" => FilesOf(j) = {}

\* a job whose upload failed has returned: the source file is gone and the
\* rendered output is still there
C23_Witness ==
    \E j \in Jobs :
        /\ jobs[j].pc = "done"
        /\ jobs[j].uploadErrs > 0
        /\ ~Exists(scratch, jobs[j].source)
        /\ \E k \in DOMAIN jobs[j].paths : Exists(scratch, jobs[j].paths[k])

\* the scratch paths a handleJob invocation reads or writes: its source file
\* and the rendered outputs
UsedPaths(j) ==
    (IF jobs[j].source # <<>> THEN {jobs[j].source} ELSE {})
        \cup {jobs[j].paths[k] : k \in DOMAIN jobs[j].paths}

Running(j) == jobs[j].pc \notin {"idle", "done"}

\* C24: two handleJob invocations running at the same time, two jobs for the
\* same parent and the same sizes included, use no scratch path in common,
\* neither for the fetched source nor for a rendered output.
C24_ScratchPathsPerJob ==
    \A j1 \in DOMAIN jobs, j2 \in DOMAIN jobs :
        j1 # j2 /\ Running(j1) /\ Running(j2) => UsedPaths(j1) \cap UsedPaths(j2) = {}

\* two invocations for the same parent are both uploading: their source
\* files differ and they share the path of a rendered output
C24_Witness ==
    \E j1 \in DOMAIN jobs, j2 \in DOMAIN jobs :
        /\ j1 # j2
        /\ jobs[j1].pc = "upload" /\ jobs[j2].pc = "upload"
        /\ jobs[j1].parent = jobs[j2].parent
        /\ jobs[j1].source # jobs[j2].source
        /\ \E k1 \in DOMAIN jobs[j1].paths, k2 \in DOMAIN jobs[j2].paths :
              jobs[j1].paths[k1] = jobs[j2].paths[k2]

\* parent p has no processed derived record for some size the backfill requests
LacksProcessed(p) ==
    \E k \in DOMAIN BackfillSizes :
        ~\E i \in DOMAIN store :
            /\ store[i].parent = p
            /\ store[i].size = BackfillSizes[k]
            /\ store[i].status = "processed"

\* C25: in gap-filling mode (execute, only-missing) a discovered parent gets a
\* job exactly when it has no processed derived record for some requested
\* size, in the earlier backfill and in the scan processor alike.
C25_JobIffSizeMissing ==
    [][jobs' = jobs /\ parents' = parents =>
        /\ BackfillPublish(FALSE, {p \in discoverImages : NeedsThumbnails(p)})
              => gap'.images = {p \in discoverImages : LacksProcessed(p)}
        /\ \A p \in discoverImages, fixStatus \in BOOLEAN, skip \in SUBSET DOMAIN store :
              GapProcess(p, TRUE, fixStatus, "none", skip)
                  => (p \in gap'.images <=> LacksProcessed(p))]_vars

\* the scan processor skipped a parent none of whose records is processed: it
\* has as many thumbnail_ variants as sizes were requested
C25_Witness ==
    \E p \in discoverImages :
        /\ gap = [dry |-> FALSE, images |-> {}]
        /\ p \notin published
        /\ checkHasThumbnails(p)
        /\ LacksProcessed(p)
        /\ \A i \in DOMAIN store : store[i].parent = p => store[i].status # "processed"

\* C26: GetGenerator depends on the declared media type only and not on its
\* letter case: image/* gives the bitmap renderer, video/* the video renderer,
\* application/pdf the document renderer and anything else the
\* unsupported-type error; a renderer it returns supports the media type.
C26_GetGeneratorRoutes ==
    calc.fn = "GetGenerator" =>
        LET lower == ToLower(calc.mimeType)
        IN  /\ HasPrefix(lower, "image/") => calc.generator = "image"
            /\ HasPrefix(lower, "video/") => calc.generator = "video"
            /\ lower = "application/pdf" => calc.generator = "pdf"
            /\ ~HasPrefix(lower, "image/") /\ ~HasPrefix(lower, "video/")
                  /\ lower # "application/pdf" => calc.generator = ""
            /\ calc.generator # "" => Supports(calc.generator, calc.mimeType)
            /\ \A other \in MimeTypes :
                  ToLower(other) = lower => GetGenerator(other) = calc.generator

\* GetGenerator was called with a PDF type written in capitals and returned
\* the document renderer
C26_Witness ==
    /\ calc.fn = "GetGenerator"
    /\ calc.mimeType = "APPLICATION/PDF"
    /\ calc.generator = "pdf"

\* Generate has returned outputs to job j
Generated(j) == jobs[j].paths # <<>>

\* the placeholders of job j that an UploadThumbnailObject call was made for
Attempted(j) == {jobs[j].ids[jobs[j].results[k].Size] : k \in DOMAIN jobs[j].results}

\* C27: a Generate call that succeeded returned one output per requested
\* spec, in spec order, named after its spec and written to a path of its
\* own, and a failed one returned none; so a job that went through the upload
\* stage made an upload attempt for every placeholder it created.
C27_OneOutputPerSpec ==
    \A j \in Jobs :
        /\ Generated(j) =>
              /\ Len(jobs[j].thumbs) = Len(jobs[j].sizes)
              /\ \A k \in DOMAIN jobs[j].thumbs : jobs[j].thumbs[k] = jobs[j].sizes[k].Name
              /\ \A k1 \in DOMAIN jobs[j].paths, k2 \in DOMAIN jobs[j].paths :
                    k1 # k2 => jobs[j].paths[k1] # jobs[j].paths[k2]
        /\ ~Generated(j) => jobs[j].thumbs = <<>>
        /\ jobs[j].ret = "nil" => RecordsOf(j) \subseteq Attempted(j)

\* a job whose hint named one size twice has completed: Generate returned two
\* outputs with one path, and the first placeholder got no upload attempt
C27_Witness ==
    \E j \in Jobs :
        /\ jobs[j].ret = "nil"
        /\ Len(jobs[j].paths) = 2
        /\ jobs[j].paths[1] = jobs[j].paths[2]
        /\ Cardinality(RecordsOf(j)) = 2
        /\ Cardinality(Attempted(j)) = 1

\* C28: no step of a handleJob invocation or of the status-repair scan,
\* whose processor skips content that is no thumbnail, changes the status of
\* a parent.
C28_ParentReadOnly ==
    [][parents' = parents]_vars

\* a job has completed for a parent and an execute-mode scan is going through
\* the records it listed; the parent is uploaded as it was
C28_Witness ==
    /\ \E j \in Jobs : jobs[j].ret = "nil" /\ parents[jobs[j].parent] = "uploaded"
    /\ scan.pc = "run"
    /\ ~scan.dry
    /\ parents = [p \in Parents |-> IF p = "p1" THEN "uploaded" ELSE "created"]

\* C29: no derived record ever has the parent-only status uploaded, whichever
\* operation of the pipeline or of a backfill scan wrote its status last.
C29_DerivedNeverUploaded ==
    \A i \in DOMAIN store : store[i].status # "uploaded"

\* the job that made a record finished with the record processed, and a scan
\* processor run that published nothing has since set the record to uploaded
C29_Witness ==
    \E i \in DOMAIN store :
        /\ store[i].status = "uploaded"
        /\ HasUploadedObject(i)
        /\ \E j \in Jobs : /\ store[i].job = j
                           /\ jobs[j].ret = "nil"
                           /\ \E k \in DOMAIN jobs[j].results :
                                 /\ jobs[j].results[k].ContentID = i
                                 /\ jobs[j].results[k].Status = "processed"
        /\ gap = [dry |-> FALSE, images |-> {}]

\* fetchSourceStep returned the source to job j
FetchSucceeded(j) == jobs[j].source # <<>>

\* C30: once the status update that follows a successful source fetch is
\* over, none of the job's placeholders is in created: a record in created
\* belongs to a job whose source fetch has not succeeded.
C30_NoCreatedAfterFetch ==
    \A i \in DOMAIN store :
        store[i].status = "created" =>
            \A j \in Jobs :
                store[i].job = j => ~FetchSucceeded(j) \/ jobs[j].pc = "mark"

\* a job fetched its source, moved one placeholder to processing and failed
\* on the status update of the other, which stays in created
C30_Witness ==
    \E j \in Jobs, i1 \in DOMAIN store, i2 \in DOMAIN store :
        /\ FetchSucceeded(j)
        /\ jobs[j].ret = "error"
        /\ store[i1].job = j /\ store[i1].status = "processing"
        /\ store[i2].job = j /\ store[i2].status = "created"
        /\ store[i2].objs = <<>>

\* C31: when a CreateDerivedContent call fails, for whichever size, handleJob
\* returns an error without having called the download, publishes the failure
\* with the error and its classification, and none of the placeholders the
\* job had created before is in processing.
C31_CreateFailureAborts ==
    [][\A j \in Jobs :
         (jobs[j].pc = "create" /\ jobs'[j].pc = "done") =>
            /\ jobs'[j].ret = "error"
            /\ Count(jobs'[j].trace, "download") = 0
            /\ jobs'[j].source = <<>>
            /\ Len(jobs'[j].done) = 1
            /\ jobs'[j].done[1].Error # ""
            /\ jobs'[j].done[1].FailureType = classifyError(PlainErr(jobs'[j].done[1].Error))
            /\ jobs'[j].lifecycle[Len(jobs'[j].lifecycle)].Stage = StageFailed
            /\ \A i \in DOMAIN store' : store'[i].job = j => store'[i].status # "processing"]_vars

\* a job with two sizes has returned after its second CreateDerivedContent
\* failed: it made no download, and its one placeholder is in created
C31_Witness ==
    \E j \in Jobs :
        /\ jobs[j].pc = "done"
        /\ jobs[j].ret = "error"
        /\ jobs[j].trace = <<"create", "create">>
        /\ Len(jobs[j].sizes) = 2
        /\ Cardinality(RecordsOf(j)) = 1
        /\ \A i \in RecordsOf(j) : store[i].status = "created"

\* the step in which Generate returns an error to handleJob
GenerateFails(j) == jobs[j].pc = "generate" /\ jobs'[j].pc = "done" /\ jobs'[j].ret = "error"

\* C32: when Generate returns an error, handleJob returns without an upload
\* call and without a status write, every placeholder of the job is in
\* processing at that moment, and the ThumbnailDone it publishes ends with the
\* failed stage.
C32_RenderFailureKeepsProcessing ==
    [][\A j \in Jobs :
         GenerateFails(j) =>
            /\ Count(jobs'[j].trace, "upload") = 0
            /\ store' = store
            /\ Len(jobs'[j].done) = 1
            /\ jobs'[j].done[1].Error # ""
            /\ jobs'[j].lifecycle[Len(jobs'[j].lifecycle)].Stage = StageFailed
            /\ \A i \in DOMAIN store' : store'[i].job = j => store'[i].status = "processing"]_vars

\* a job whose hint named one size twice has returned after Generate failed,
\* with no scan run: its later placeholder is in processing, the earlier one
\* in created
C32_Witness ==
    \E j \in Jobs :
        /\ jobs[j].ret = "error"
        /\ jobs[j].trace = <<"create", "create", "download", "generate">>
        /\ scan = IdleScan
        /\ \E a, b \in RecordsOf(j) :
              /\ a < b
              /\ store[a].status = "created"
              /\ store[b].status = "processing"
              /\ store[a].size = store[b].size

\* the candidates of the last ResolveName call, in the order of the claim
NameCandidates ==
    << calc.fileName,
       AttrFilename(calc.attribute),
       calc.sourceFilename,
       IF calc.sourcePath # "" THEN Base(calc.sourcePath) ELSE "",
       "thumbnail.png" >>

\* C33: the name handleJob resolves is the first non-empty one of: the job's
\* file name, the filename attribute of its file block, the fetched source's
\* filename, the base name of the source path, the default thumbnail.png.
C33_FilenamePriority ==
    calc.fn = "ResolveName" =>
        \E k \in DOMAIN NameCandidates :
            /\ NameCandidates[k] # ""
            /\ \A m \in 1..(k - 1) : NameCandidates[m] = ""
            /\ calc.out = NameCandidates[k]

\* a call whose job carries no name and an attribute that is no string, with
\* a source path: the fetched source's filename is used, before the path
C33_Witness ==
    /\ calc.fn = "ResolveName"
    /\ calc.fileName = ""
    /\ calc.attribute.kind = "number"
    /\ calc.sourcePath = "inbox/scan.png"
    /\ calc.sourceFilename = "downloaded"
    /\ calc.out = "downloaded"

\* C34: once a derived record's status has been written as processed, no
\* later step of the handleJob invocation or of a status-repair scan changes
\* it, a scan that listed the record while it was processing included.
C34_ProcessedTerminal ==
    [][\A i \in DOMAIN store :
         store[i].status = "processed" => store'[i].status = "processed"]_vars

\* a record its job reports as processed, with its uploaded object, is
\* failed: a scan that had listed it before handled it after the job's write
C34_Witness ==
    \E i \in DOMAIN store :
        /\ store[i].status = "failed"
        /\ HasUploadedObject(i)
        /\ \E j \in Jobs : \E k \in DOMAIN jobs[j].results :
              /\ jobs[j].results[k].Status = "processed"
              /\ jobs[j].results[k].ContentID = i
        /\ scan.dry = FALSE /\ i \in scan.found

\* C35: a placeholder the status-repair scan has marked failed is not moved
\* to processed by a later step of the job that created it.
C35_FailedNotRevived ==
    [][\A i \in DOMAIN store :
         (store[i].status = "failed" /\ jobs'[store[i].job] # jobs[store[i].job])
         => store'[i].status # "processed"]_vars

\* the scan has marked a placeholder failed while its job was uploading; the
\* upload has succeeded and the job is about to write the status
C35_Witness ==
    \E i \in DOMAIN store :
        /\ store[i].status = "failed"
        /\ ~scan.dry /\ i \in scan.found
        /\ HasUploadedObject(i)
        /\ \E j \in Jobs :
              /\ store[i].job = j
              /\ jobs[j].pc = "setstatus"
              /\ jobs[j].ids[jobs[j].thumbs[Len(jobs[j].results) + 1]] = i

\* the placeholders the DerivedContentIDs map of job j holds
Tracked(j) == {jobs[j].ids[n] : n \in SizeNames} \ {0}

\* C36: once createDerivedContentRecords has returned the map to handleJob,
\* every placeholder the job created is in the map, whatever the resolved
\* size list, and every placeholder is the one of some output Generate
\* returned.
C36_PlaceholdersTracked ==
    \A j \in Jobs :
        FetchBegun(j) =>
            /\ RecordsOf(j) = Tracked(j)
            /\ Generated(j) =>
                  \A i \in RecordsOf(j) :
                      \E k \in DOMAIN jobs[j].thumbs : jobs[j].ids[jobs[j].thumbs[k]] = i

\* a job whose hint named one size twice is about to fetch the source: it
\* created two placeholders and its map holds the later one only
C36_Witness ==
    \E j \in Jobs :
        /\ jobs[j].pc = "fetch"
        /\ Len(jobs[j].sizes) = 2
        /\ jobs[j].sizes[1] = jobs[j].sizes[2]
        /\ Cardinality(RecordsOf(j)) = 2
        /\ Cardinality(Tracked(j)) = 1
        /\ \A i \in RecordsOf(j) : \A k \in RecordsOf(j) : i <= k => k \in Tracked(j) \/ i = k

\* the derived record of the size a result of job j names
RecordOfResult(j, k) == jobs[j].ids[jobs[j].results[k].Size]

\* C37: in the completion event of a job that ran alone, a size is reported
\* processed exactly when the job wrote processed to the derived record of
\* that size, and total_failed is the number of results that are not
\* processed.
C37_ResultsAgreeWithStore ==
    \A j \in Jobs :
        jobs[j].ret = "nil" =>
            /\ jobs[j].done[1].Results = jobs[j].results
            /\ \A k \in DOMAIN jobs[j].results :
                  jobs[j].results[k].Status = "processed"
                     <=> store[RecordOfResult(j, k)].status = "processed"
            /\ jobs[j].done[1].TotalFailed =
                  Cardinality({k \in DOMAIN jobs[j].done[1].Results :
                                  jobs[j].done[1].Results[k].Status # "processed"})

\* a job that ran alone with a hint naming one size twice has completed: it
\* reports the size once as processed and once as failed, and the record of
\* the size is processed
C37_Witness ==
    \E j \in Jobs :
        /\ jobs[j].ret = "nil"
        /\ scan = IdleScan
        /\ Len(jobs[j].results) = 2
        /\ jobs[j].results[1].Size = jobs[j].results[2].Size
        /\ jobs[j].results[1].Status = "processed"
        /\ jobs[j].results[2].Status = "failed"
        /\ store[RecordOfResult(j, 2)].status = "processed"
        /\ jobs[j].done[1].TotalFailed = 1

\* the place of a non-terminal stage in the order validation, processing, upload
NonTerminalRank(stage) ==
    CASE stage = StageValidation -> 1
      [] stage = StageProcessing -> 2
      [] stage = StageUpload -> 3
      [] OTHER -> 0

\* a lifecycle trail with one terminal stage, at its end, after non-terminal
\* stages in ascending order
WellFormedTrail(lifecycle) ==
    /\ lifecycle # <<>>
    /\ lifecycle[Len(lifecycle)].Stage \in {StageCompleted, StageFailed}
    /\ \A k \in 1..(Len(lifecycle) - 1) : NonTerminalRank(lifecycle[k].Stage) > 0
    /\ \A a, b \in 1..(Len(lifecycle) - 1) :
          a < b => NonTerminalRank(lifecycle[a].Stage) < NonTerminalRank(lifecycle[b].Stage)

\* C38: the lifecycle trail of every ThumbnailDone holds exactly one terminal
\* stage, completed or failed, as its last entry, before it the stages
\* validation, processing, upload in that order and none twice, and the
\* message carries an error exactly when the trail ends in failed.
C38_TrailWellFormed ==
    \A j \in Jobs : \A k \in DOMAIN jobs[j].done :
        LET d == jobs[j].done[k]
        IN  /\ WellFormedTrail(d.Lifecycle)
            /\ d.Error # "" <=> d.Lifecycle[Len(d.Lifecycle)].Stage = StageFailed

\* a job whose envelope carried no content id has returned: its ThumbnailDone
\* carries the error and an empty trail
C38_Witness ==
    \E j \in Jobs :
        /\ jobs[j].ret = "error"
        /\ Len(jobs[j].done) = 1
        /\ jobs[j].done[1].Error = "missing content_id"
        /\ jobs[j].done[1].FailureType = FailureTypeValidation
        /\ jobs[j].done[1].Lifecycle = <<>>

\* C39: a record the status-repair scan moves to failed is not one whose
\* objects exist and are all uploaded.
C39_FailedNotFullyUploaded ==
    [][(/\ ScanHandles
        /\ store[Head(scan.queue).id].status # "failed"
        /\ store'[Head(scan.queue).id].status = "failed")
       => ~(/\ store[Head(scan.queue).id].objs # <<>>
            /\ AllUploaded(store[Head(scan.queue).id].objs))]_vars

\* a job's upload stored the object and then reported an error, so the record
\* stayed in processing; the job has finished, and a scan more than an hour
\* later marked the record failed, its one object uploaded
C39_Witness ==
    \E i \in DOMAIN store :
        /\ store[i].status = "failed"
        /\ store[i].objs = <<"uploaded">>
        /\ ~scan.dry /\ i \in scan.found
        /\ \E j \in Jobs :
              /\ jobs[j].ret = "nil"
              /\ \A k \in DOMAIN jobs[j].results : jobs[j].results[k].Status = "failed"
              /\ \E k \in DOMAIN jobs[j].results : RecordOfResult(j, k) = i

\* C40: an execute-mode run of the status-repair scan that follows a
\* completed execute-mode run whose store calls succeeded, with no write by
\* anything else and no hour passed in between, writes no status: the store
\* after the second run is the store after the first.
C40_RescanWritesNothing ==
    [][(runs = "run2" /\ ScanHandles) => store' = store]_vars

\* a second execute-mode run has gone through the records it listed, among
\* them a record with an object that is not uploaded, which is in created
C40_Witness ==
    /\ runs = "done2"
    /\ scan.pc = "idle" /\ ~scan.dry
    /\ \E i \in scan.found :
          /\ store[i].status = "created"
          /\ store[i].objs = <<"created">>
          /\ store[i].age = 0

====
